---- MODULE Spec2Model ----
(***************************************************************************)
(* Universal Agent Quota Tracker: the provider quota-resolution engine.    *)
(*                                                                         *)
(* One behaviour is one fetchQuota() of one provider (Z.AI, Gemini CLI or  *)
(* Antigravity).  Init draws the provider and everything the fetch reads   *)
(* (environment variables, the process-wide Z.AI key, credential files,    *)
(* the clock); every await on the network is one action whose response is  *)
(* chosen by the environment.                                              *)
(*                                                                         *)
(* Conventions.  A JavaScript object is a record whose optional fields may *)
(* be missing from its domain.  `undefined`/`null` strings are the value   *)
(* Undefined/Null.  Fractions are exact decimals in thousandths (1000 is   *)
(* 1.0) and Z.AI percentages are in tenths of a percent (125 is 12.5%);    *)
(* every value drawn is a dyadic rational, so the exact arithmetic below   *)
(* and IEEE-754 doubles agree on it.  Text is a sequence of one-character  *)
(* strings where the code looks inside it (substring, lower-casing).       *)
(***************************************************************************)
EXTENDS Integers, Sequences, FiniteSets, TLC

VARIABLES
    provider,        \* the provider whose fetchQuota() this behaviour runs
    pc,              \* position of the fetch: the await it is suspended at
    result,          \* the ProviderQuotaResult returned, NoResult before
    calls,           \* HTTP requests issued so far, with their outcome (Antigravity:
                     \* since getAllAccountSources, then since the account in hand began)
    now,             \* Date.now()
    env,             \* process.env
    storedApiKey,    \* zai.ts: let storedApiKey
    credFile,        \* ~/.gemini/oauth_creds.json
    creds,           \* Gemini fetchQuota: const creds
    accessToken,     \* Gemini fetchQuota: let accessToken
    agStore,         \* Antigravity: the account files and token databases on disk
    accountSources,  \* Antigravity: the AccountWithToken list being built, then looped over
    agIdx,           \* Antigravity: index of the source, then of the account, in hand
    agProjectId,     \* Antigravity fetchQuota: const projectId of the account in hand
    endpointIdx,     \* Antigravity fetchModelQuotas: index of `endpoint` in `endpoints`
    attempt,         \* Antigravity fetchModelQuotas: let attempt
    accounts,        \* Antigravity fetchQuota: const accounts
    served,          \* history: what the quota API ended up answering for each account
    icons,           \* QuotaTreeItem: the health icons of the rows of the tree
    iconsBefore,     \* history: the icons the tree showed before the latest result
    agEntries,       \* fetchModelQuotas: Object.entries(data.models) of the body in hand
    agEntryIdx,      \* fetchModelQuotas: position of the loop over the entries
    agGroups,        \* fetchModelQuotas: const groups
    agGroupKeys,     \* history: the groupKey each entry passed got (Undefined: skipped)
    agModels,        \* fetchModelQuotas: const models, NoResult before
    settingKey,      \* the setting universalQuota.providers.zai.apiKey
    secretKey,       \* context.secrets: the value stored as universalQuota.zai.apiKey
    pendingUpdates,  \* updateZaiApiKey invocations suspended at `await context.secrets.get`
    updatesBegun,    \* history: updateZaiApiKey invocations so far
    settingChanges,  \* history: changes of the setting so far
    keySource,       \* history: the branch of updateZaiApiKey that called setZaiApiKey last
    lastSettingRead  \* history: const settingKey of the latest updateZaiApiKey invocation

vars == <<provider, pc, result, calls, now, env, storedApiKey,
          credFile, creds, accessToken,
          agStore, accountSources, agIdx, agProjectId, endpointIdx, attempt, accounts, served,
          icons, iconsBefore,
          agEntries, agEntryIdx, agGroups, agGroupKeys, agModels,
          settingKey, secretKey, pendingUpdates, updatesBegun, settingChanges, keySource,
          lastSettingRead>>

keyVars == <<settingKey, secretKey, pendingUpdates, updatesBegun, settingChanges, keySource,
             lastSettingRead>>
zaiVars == <<env, storedApiKey, keyVars>>
geminiVars == <<credFile, creds, accessToken>>
agVars == <<agStore, accountSources, agIdx, agProjectId, endpointIdx, attempt, accounts, served>>
treeVars == <<icons, iconsBefore>>
groupVars == <<agEntries, agEntryIdx, agGroups, agGroupKeys, agModels>>

----------------------------------------------------------------------------
(* Bounds of the model.                                                    *)

MaxLimits == 2      \* limits in one Z.AI response
MaxBuckets == 2     \* buckets in one Gemini retrieveUserQuota response
MaxTicks == 1       \* seconds the clock may advance during one Gemini fetch
MaxModels == 2      \* models in one Antigravity fetchAvailableModels response
MaxShown == 2       \* models of the account whose quota the tree view follows
MaxUpdates == 3     \* updateZaiApiKey invocations in one behaviour
MaxChanges == 2     \* changes of the Z.AI key setting in one behaviour

----------------------------------------------------------------------------
(* JavaScript values.                                                      *)

Undefined == "<undefined>"
Null == "<null>"

\* !!s for a string-or-undefined s
Truthy(s) == s # Undefined /\ s # Null /\ s # ""

Has(r, f) == f \in DOMAIN r

\* Math.round: the nearest integer, a tie going up.  t is in tenths.
RoundTenths(t) == (t + 5) \div 10

Min(a, b) == IF a < b THEN a ELSE b
Max(a, b) == IF a > b THEN a ELSE b

\* all sequences over S of length at most n
SeqUpTo(S, n) == UNION {[1..k -> S] : k \in 0..n}

NoResult == [status |-> "pending"]

----------------------------------------------------------------------------
(* base.ts and utils/health.ts are not among the sources; their helpers    *)
(* are written from the data model of the specification.                   *)

createNotConfiguredResult(hint) ==
    [status |-> "not_configured", accounts |-> <<>>, hint |-> hint]

createAuthExpiredResult(hint) ==
    [status |-> "auth_expired", accounts |-> <<>>, hint |-> hint]

createErrorResult(error, hint) ==
    [status |-> "error", accounts |-> <<>>, error |-> error, hint |-> hint]

calculateOverallHealth(models) ==
    IF models = <<>> THEN "unknown"
    ELSE IF \E i \in DOMAIN models : models[i].remainingPercent < 30 THEN "critical"
    ELSE IF \E i \in DOMAIN models : models[i].remainingPercent < 70 THEN "warning"
    ELSE "good"

OkResult(accts) == [status |-> "ok", accounts |-> accts]

----------------------------------------------------------------------------
(* Z.AI (src/providers/zai.ts)                                             *)

ZaiEnvNames == <<"ZAI_API_KEY", "ZAI_KEY", "ZHIPU_API_KEY", "ZHIPUAI_API_KEY">>
GeminiEnvNames == <<"GEMINI_API_KEY", "GOOGLE_API_KEY">>
EnvNames == {ZaiEnvNames[i] : i \in DOMAIN ZaiEnvNames}
                \cup {GeminiEnvNames[i] : i \in DOMAIN GeminiEnvNames}

NoEnv == [n \in EnvNames |-> Undefined]

\* a || b || ... || null over the environment variables, in the order given
RECURSIVE FirstTruthyEnv(_, _)
FirstTruthyEnv(e, names) ==
    IF names = <<>> THEN Null
    ELSE IF Truthy(e[Head(names)]) THEN e[Head(names)]
    ELSE FirstTruthyEnv(e, Tail(names))

\* A variant of getApiKey that prefers the environment to the stored key.
getApiKeyEnvFirst(stored, e) ==
    IF FirstTruthyEnv(e, ZaiEnvNames) # Null THEN FirstTruthyEnv(e, ZaiEnvNames)
    ELSE IF Truthy(stored) THEN stored ELSE Null

\* zai.ts 34-41
getApiKey(stored, e) ==
    IF Truthy(stored) THEN stored ELSE FirstTruthyEnv(e, ZaiEnvNames)

ZaiTypes == {"TOKENS_LIMIT", "TIME_LIMIT", "Other_Limit"}

\* String.prototype.toLowerCase on the limit types of the model
ToLowerCase(s) ==
    CASE s = "TOKENS_LIMIT" -> "tokens_limit"
      [] s = "TIME_LIMIT" -> "time_limit"
      [] s = "Other_Limit" -> "other_limit"

ZaiDisplayName(type) ==
    CASE type = "TOKENS_LIMIT" -> "Tokens"
      [] type = "TIME_LIMIT" -> "Requests"
      [] OTHER -> type

\* limits.map(limit => ...): percentage is in tenths of a percent
ZaiModel(limit) ==
    LET usedPercent == limit.percentage
        remainingPercent == 1000 - usedPercent
        base == [name |-> ToLowerCase(limit.type),
                 displayName |-> ZaiDisplayName(limit.type),
                 remainingPercent |-> RoundTenths(remainingPercent),
                 usedPercent |-> RoundTenths(usedPercent)]
    IN  IF Has(limit, "nextResetTime") /\ limit.nextResetTime # 0
        THEN base @@ [resetTime |-> limit.nextResetTime]
        ELSE base

ZaiAccount(models) ==
    [id |-> "default", name |-> "Z.AI", models |-> models,
     overallHealth |-> calculateOverallHealth(models)]

\* What the remote may answer.  kind "throw" is a rejected fetch() or a body
\* response.json() cannot decode.
ZaiPercentages == {-200, 125, 500, 750, 1200}
ZaiLimits ==
    [type : {"TOKENS_LIMIT", "TIME_LIMIT"}, percentage : ZaiPercentages]
        \cup [type : {"Other_Limit"}, percentage : {125}, nextResetTime : {9000}]
ZaiBodies ==
    {[success |-> FALSE], [success |-> TRUE], [success |-> TRUE, data |-> [x |-> 0]],
     [data |-> [limits |-> <<>>]]}
        \cup {[success |-> TRUE, data |-> [limits |-> l]] : l \in SeqUpTo(ZaiLimits, MaxLimits)}
ZaiResponses ==
    {[kind |-> "throw", error |-> "TypeError: fetch failed"],
     [kind |-> "throw", error |-> "SyntaxError: Unexpected token"]}
        \cup [kind : {"http"}, status : {401, 403, 500}]
        \cup [kind : {"http"}, status : {200}, body : ZaiBodies]

ResponseOk(r) == r.status >= 200 /\ r.status <= 299

\* zai.ts 47-61: read the key; without one return at once, else send the request
ZaiFetchQuota ==
    /\ provider = "zai" /\ pc = "start"
    /\ LET apiKey == getApiKey(storedApiKey, env)
       IN  IF ~Truthy(apiKey)
           THEN /\ result' = createNotConfiguredResult(
                             "Set API key in settings (universalQuota.providers.zai.apiKey) or run 'Set Z.AI API Key' command")
                /\ pc' = "done"
                /\ calls' = calls
           ELSE /\ calls' = Append(calls, [api |-> "zai:quota", authorization |-> apiKey])
                /\ pc' = "zai:await"
                /\ result' = result
    /\ UNCHANGED <<provider, treeVars, groupVars, now, zaiVars, geminiVars, agVars>>

\* A variant of ZaiResultOf that does not look at the success flag.
ZaiResultOfIgnoringSuccess(r) ==
    IF r.kind = "throw" THEN createErrorResult(r.error, Undefined)
    ELSE IF r.status = 401 THEN createErrorResult("Invalid API key", "Check API key")
    ELSE IF ~ResponseOk(r) THEN createErrorResult("API error: " \o ToString(r.status), Undefined)
    ELSE IF ~(Has(r.body, "data") /\ Has(r.body.data, "limits"))
         THEN createErrorResult("Unexpected API response", Undefined)
    ELSE OkResult(<<ZaiAccount([i \in DOMAIN r.body.data.limits |->
                                  ZaiModel(r.body.data.limits[i])])>>)

\* A variant of ZaiResultOf in which a failed fetch() is not caught.
ZaiResultOfUncaught(r) ==
    IF r.kind = "throw" THEN [status |-> "rejected", error |-> r.error]
    ELSE createErrorResult("API error", Undefined)

\* zai.ts 63-119: the rest of fetchQuota once the response r has arrived
ZaiResultOf(r) ==
    IF r.kind = "throw" THEN createErrorResult(r.error, Undefined)
    ELSE IF r.status = 401 THEN createErrorResult("Invalid API key", "Check API key")
    ELSE IF ~ResponseOk(r) THEN createErrorResult("API error: " \o ToString(r.status), Undefined)
    ELSE IF ~(Has(r.body, "success") /\ r.body.success)
              \/ ~(Has(r.body, "data") /\ Has(r.body.data, "limits"))
         THEN createErrorResult("Unexpected API response", Undefined)
    ELSE OkResult(<<ZaiAccount([i \in DOMAIN r.body.data.limits |->
                                  ZaiModel(r.body.data.limits[i])])>>)

ZaiResponded(responses) ==
    /\ provider = "zai" /\ pc = "zai:await"
    /\ \E r \in responses :
         /\ result' = ZaiResultOf(r)
         /\ calls' = [calls EXCEPT ![Len(calls)] = @ @@ [response |-> r]]
    /\ pc' = "done"
    /\ UNCHANGED <<provider, treeVars, groupVars, now, zaiVars, geminiVars, agVars>>

ZaiResponse == ZaiResponded(ZaiResponses)

----------------------------------------------------------------------------
(* The Z.AI key of the extension (extension.ts, src/unnamed/part_002       *)
(* 38-133): updateZaiApiKey is called, not awaited, at activation (94),    *)
(* and by the set-key command (88) and the configuration listener (109).   *)

\* The setting is edited (settings editor, settings.json, settings sync).
ChangeSetting ==
    /\ provider = "zai"
    /\ settingChanges < MaxChanges
    /\ \E v \in {Undefined, "", "sk-test"} \ {settingKey} : settingKey' = v
    /\ settingChanges' = settingChanges + 1
    /\ UNCHANGED <<provider, pc, result, calls, now, env, storedApiKey, secretKey,
                   pendingUpdates, updatesBegun, keySource, lastSettingRead,
                   geminiVars, agVars, treeVars, groupVars>>

\* updateZaiApiKey 118-126, up to its return or to `await context.secrets.get`
updateZaiApiKey ==
    /\ provider = "zai"
    /\ updatesBegun < MaxUpdates
    /\ updatesBegun' = updatesBegun + 1
    /\ lastSettingRead' = settingKey
    /\ IF Truthy(settingKey)
       THEN /\ storedApiKey' = settingKey
            /\ keySource' = "settings"
            /\ pendingUpdates' = pendingUpdates
       ELSE /\ pendingUpdates' = pendingUpdates + 1
            /\ UNCHANGED <<storedApiKey, keySource>>
    /\ UNCHANGED <<provider, pc, result, calls, now, env, settingKey, secretKey,
                   settingChanges, geminiVars, agVars, treeVars, groupVars>>

\* updateZaiApiKey 125-126: the secret has arrived, setZaiApiKey(storedKey)
updateZaiApiKeyResumed ==
    /\ provider = "zai"
    /\ pendingUpdates > 0
    /\ pendingUpdates' = pendingUpdates - 1
    /\ storedApiKey' = secretKey
    /\ keySource' = "secrets"
    /\ UNCHANGED <<provider, pc, result, calls, now, env, settingKey, secretKey,
                   updatesBegun, settingChanges, lastSettingRead, geminiVars, agVars, treeVars, groupVars>>

\* the responses the behaviours that follow the key are closed with
ZaiKeyResponses ==
    {[kind |-> "throw", error |-> "TypeError: fetch failed"],
     [kind |-> "http", status |-> 401],
     [kind |-> "http", status |-> 200,
      body |-> [success |-> TRUE,
                data |-> [limits |-> <<[type |-> "TOKENS_LIMIT", percentage |-> 500]>>]]]}

ZaiKeyResponse == ZaiResponded(ZaiKeyResponses)


----------------------------------------------------------------------------
(* Gemini CLI (GeminiCliProvider, src/unnamed/part_003 233-497)            *)

NoCreds == [file |-> "missing"]

\* getCredentials: the parsed file, or null when it cannot be read or parsed
getCredentials(file) == IF Has(file, "file") THEN NoCreds ELSE file

IsNullCreds(c) == Has(c, "file")

\* A variant of IsExpired that refreshes a minute before the expiry.
IsExpiredWithMargin(c, t) ==
    \/ ~Has(c, "expiry_date")
    \/ c.expiry_date = 0
    \/ t + 60000 >= c.expiry_date

\* A variant of IsExpired that reads a missing expiry_date as "not expired".
IsExpiredWhenDated(c, t) == Has(c, "expiry_date") /\ t >= c.expiry_date

\* !creds.expiry_date || Date.now() >= creds.expiry_date
IsExpired(c, t) ==
    \/ ~Has(c, "expiry_date")
    \/ c.expiry_date = 0
    \/ t >= c.expiry_date

\* the request refreshToken(creds) posts to the token endpoint
GeminiTokenRequest(c) ==
    [api |-> "token",
     refresh_token |-> c.refresh_token,
     client_id |-> IF Has(c, "client_id") /\ Truthy(c.client_id)
                   THEN c.client_id ELSE "GEMINI_CLIENT_ID",
     client_secret |-> IF Has(c, "client_secret") /\ Truthy(c.client_secret)
                       THEN c.client_secret ELSE "GEMINI_CLIENT_SECRET"]

GeminiProjectRequest(token) == [api |-> "loadCodeAssist", authorization |-> token]

GeminiQuotaRequest(token, projectId) ==
    [api |-> "retrieveUserQuota", authorization |-> token, project |-> projectId]

\* A variant of UpdatedCreds that writes the token and the expiry only.
UpdatedCredsTokenOnly(c, data, t) ==
    [access_token |-> data.access_token, expiry_date |-> t + data.expires_in * 1000]

\* { ...creds, access_token, expiry_date: Date.now() + expires_in * 1000 }
UpdatedCreds(c, data, t) ==
    [f \in DOMAIN c \cup {"access_token", "expiry_date"} |->
        IF f = "access_token" THEN data.access_token
        ELSE IF f = "expiry_date" THEN t + data.expires_in * 1000
        ELSE c[f]]

\* A variant of RefreshedToken that returns the token whether or not the
\* file was written.
RefreshedTokenDespiteWrite(r, written) ==
    IF r.kind = "throw" THEN Null
    ELSE IF ~ResponseOk(r) THEN Null
    ELSE r.body.access_token

\* refreshToken 415-430 once the token endpoint has answered r: the token
\* returned (null on any failure) ...
RefreshedToken(r, written) ==
    IF r.kind = "throw" THEN Null
    ELSE IF ~ResponseOk(r) THEN Null
    ELSE IF ~written THEN Null
    ELSE r.body.access_token

\* ... and the credential file afterwards.  A writeFile that fails leaves the
\* old content or a truncated file.
RefreshedFile(file, c, r, written, t) ==
    IF r.kind = "throw" \/ ~ResponseOk(r) THEN {file}
    ELSE IF written THEN {UpdatedCreds(c, r.body, t)}
    ELSE {file, [file |-> "garbage"]}

\* parseQuotaBuckets: remainingFraction is in thousandths
GeminiModel(bucket) ==
    LET remainingPercent == RoundTenths(bucket.remainingFraction)
        base == [name |-> bucket.modelId,
                 remainingPercent |-> remainingPercent,
                 usedPercent |-> 100 - remainingPercent]
    IN  IF Has(bucket, "resetTime") /\ Truthy(bucket.resetTime)
        THEN base @@ [resetTime |-> bucket.resetTime]
        ELSE base

parseQuotaBuckets(buckets) == [i \in DOMAIN buckets |-> GeminiModel(buckets[i])]

GeminiApiKeyAccount ==
    [id |-> "api-key", name |-> "API Key Mode",
     models |-> <<[name |-> "api-key", displayName |-> "API Key (no quota data)",
                   remainingPercent |-> 100, usedPercent |-> 0]>>,
     overallHealth |-> "unknown"]

GeminiAccount(models) ==
    [id |-> "default", name |-> "Gemini CLI", models |-> models,
     overallHealth |-> calculateOverallHealth(models)]

\* A variant of GeminiCaught that reports a failure with an empty account.
GeminiCaughtWithAccount(isAuthError, message) ==
    [createErrorResult(message, Undefined)
        EXCEPT !.accounts = <<GeminiAccount(<<>>)>>]

\* fetchQuota 391-396: what the outer catch returns for a thrown error
GeminiCaught(isAuthError, message) ==
    IF isAuthError THEN createAuthExpiredResult("Run 'gemini' to re-authenticate")
    ELSE createErrorResult(message, Undefined)

\* What the remotes may answer.
TokenResponses ==
    {[kind |-> "throw", error |-> "TypeError: fetch failed"],
     [kind |-> "http", status |-> 400],
     [kind |-> "http", status |-> 200,
      body |-> [access_token |-> "tok-new", expires_in |-> 3600]]}

GeminiProjectResponses ==
    {[kind |-> "throw", error |-> "TypeError: fetch failed"]}
        \cup [kind : {"http"}, status : {401, 403, 500}]
        \cup {[kind |-> "http", status |-> 200, body |-> [x |-> 0]],
              [kind |-> "http", status |-> 200, body |-> [cloudaicompanionProject |-> ""]],
              [kind |-> "http", status |-> 200, body |-> [cloudaicompanionProject |-> "proj-1"]]}

GeminiFractions == {-250, 125, 500, 1000, 1500}
GeminiBuckets ==
    [modelId : {"gemini-2.5-pro"}, remainingFraction : GeminiFractions]
        \cup [modelId : {"gemini-2.5-flash"}, remainingFraction : {125, 750},
              resetTime : {"2026-02-01T00:00:00Z"}]
GeminiQuotaResponses ==
    {[kind |-> "throw", error |-> "TypeError: fetch failed"]}
        \cup [kind : {"http"}, status : {401, 403, 500}]
        \cup {[kind |-> "http", status |-> 200, body |-> [x |-> 0]]}
        \cup {[kind |-> "http", status |-> 200, body |-> [buckets |-> b]] :
                b \in SeqUpTo(GeminiBuckets, MaxBuckets)}

Responded(log, r) == [log EXCEPT ![Len(log)] = @ @@ [response |-> r]]

\* the same for a token request, with what refreshToken went on to return
Refreshed(log, r, token) ==
    [log EXCEPT ![Len(log)] = @ @@ [response |-> r, returned |-> token]]

\* A variant of ShouldRefreshAndRetry that treats the retry like the first attempt.
ShouldRefreshAndRetryAgain(authError, retry) == authError

\* executeWithRetry 355-368: an AuthError on the first attempt is answered by
\* a refresh and a retry; one thrown by the retry is not caught again
ShouldRefreshAndRetry(authError, retry) == authError /\ ~retry

\* fetchQuota 304-349, up to its first await on the network
\* A variant of ApiKeyMode that looks at GEMINI_API_KEY only.
ApiKeyModeGeminiOnly(e) == Truthy(e["GEMINI_API_KEY"])

\* fetchQuota 306: process.env.GEMINI_API_KEY || process.env.GOOGLE_API_KEY
ApiKeyMode(e) == Truthy(e["GEMINI_API_KEY"]) \/ Truthy(e["GOOGLE_API_KEY"])

GeminiFetchQuota ==
    /\ provider = "gemini-cli" /\ pc = "start"
    /\ IF ApiKeyMode(env)
       THEN /\ result' = OkResult(<<GeminiApiKeyAccount>>)
                           @@ [hint |-> "API key mode - quota data unavailable"]
            /\ pc' = "done"
            /\ UNCHANGED <<calls, creds, accessToken>>
       ELSE LET c == getCredentials(credFile)
            IN  IF IsNullCreds(c)
                THEN /\ result' = createNotConfiguredResult("Run 'gemini' to authenticate")
                     /\ pc' = "done"
                     /\ UNCHANGED <<calls, creds, accessToken>>
                ELSE /\ creds' = c
                     /\ accessToken' = c.access_token
                     /\ result' = result
                     /\ IF IsExpired(c, now)
                        THEN /\ calls' = Append(calls, GeminiTokenRequest(c))
                             /\ pc' = "gemini:refresh"
                        ELSE /\ calls' = Append(calls, GeminiProjectRequest(c.access_token))
                             /\ pc' = "gemini:project"
    /\ UNCHANGED <<provider, treeVars, groupVars, now, zaiVars, credFile, agVars>>

\* A variant of getProjectId that falls back on a default project.
getProjectIdOrDefault(r) ==
    IF ResponseOk(r) /\ Has(r.body, "cloudaicompanionProject")
                     /\ Truthy(r.body.cloudaicompanionProject)
    THEN r.body.cloudaicompanionProject ELSE "default-project"

\* getProjectId 454-457: what it returns for an answer r that is not 401 or 403
getProjectId(r) ==
    IF ResponseOk(r) /\ Has(r.body, "cloudaicompanionProject")
                     /\ Truthy(r.body.cloudaicompanionProject)
    THEN r.body.cloudaicompanionProject ELSE Null

\* fetchQuota 339-349: the refresh before the first call has answered
GeminiRefreshed ==
    /\ provider = "gemini-cli" /\ pc = "gemini:refresh"
    /\ \E r \in TokenResponses, written \in BOOLEAN :
         LET newToken == RefreshedToken(r, written)
         IN  /\ credFile' \in RefreshedFile(credFile, creds, r, written, now)
             /\ IF ~Truthy(newToken)
                THEN /\ result' = createAuthExpiredResult("Run 'gemini' to re-authenticate")
                     /\ pc' = "done"
                     /\ calls' = Refreshed(calls, r, newToken)
                     /\ accessToken' = accessToken
                ELSE /\ accessToken' = newToken
                     /\ calls' = Append(Refreshed(calls, r, newToken),
                                        GeminiProjectRequest(newToken))
                     /\ pc' = "gemini:project"
                     /\ result' = result
    /\ UNCHANGED <<provider, treeVars, groupVars, now, zaiVars, creds, agVars>>

\* executeWithRetry 349-354 and 361-365: getProjectId has answered, on the
\* first attempt (pc gemini:project) or on the retry (pc gemini:project2)
GeminiProjectId ==
    /\ provider = "gemini-cli" /\ pc \in {"gemini:project", "gemini:project2"}
    /\ \E r \in GeminiProjectResponses :
         LET retry == pc = "gemini:project2"
             log == Responded(calls, r)
             authError == r.kind = "http" /\ r.status \in {401, 403}
             projectId == IF r.kind = "http" THEN getProjectId(r) ELSE Null
         IN  IF r.kind = "throw"
             THEN /\ result' = GeminiCaught(FALSE, r.error)
                  /\ pc' = "done" /\ calls' = log
             ELSE IF ShouldRefreshAndRetry(authError, retry)
             THEN /\ calls' = Append(log, GeminiTokenRequest(creds))
                  /\ pc' = "gemini:refresh2" /\ result' = result
             ELSE IF authError
             THEN /\ result' = GeminiCaught(TRUE, "Authentication failed")
                  /\ pc' = "done" /\ calls' = log
             ELSE IF ~Truthy(projectId)
             THEN /\ result' = GeminiCaught(FALSE,
                                  IF retry THEN "Error: Failed to get project ID after retry"
                                  ELSE "Error: Failed to get project ID")
                  /\ pc' = "done" /\ calls' = log
             ELSE /\ calls' = Append(log, GeminiQuotaRequest(accessToken, projectId))
                  /\ pc' = IF retry THEN "gemini:quota2" ELSE "gemini:quota"
                  /\ result' = result
    /\ UNCHANGED <<provider, treeVars, groupVars, now, zaiVars, geminiVars, agVars>>

\* executeWithRetry 354 and 365, then fetchQuota 373-390: getQuota has answered
GeminiQuota ==
    /\ provider = "gemini-cli" /\ pc \in {"gemini:quota", "gemini:quota2"}
    /\ \E r \in GeminiQuotaResponses :
         LET retry == pc = "gemini:quota2"
             log == Responded(calls, r)
             authError == r.kind = "http" /\ r.status \in {401, 403}
             quotas == IF ~ResponseOk(r) THEN <<>>
                       ELSE IF Has(r.body, "buckets") THEN r.body.buckets
                       ELSE <<>>
         IN  IF r.kind = "throw"
             THEN /\ result' = GeminiCaught(FALSE, r.error)
                  /\ pc' = "done" /\ calls' = log
             ELSE IF ShouldRefreshAndRetry(authError, retry)
             THEN /\ calls' = Append(log, GeminiTokenRequest(creds))
                  /\ pc' = "gemini:refresh2" /\ result' = result
             ELSE IF authError
             THEN /\ result' = GeminiCaught(TRUE, "Authentication failed")
                  /\ pc' = "done" /\ calls' = log
             ELSE /\ result' = OkResult(<<GeminiAccount(parseQuotaBuckets(quotas))>>)
                  /\ pc' = "done" /\ calls' = log
    /\ UNCHANGED <<provider, treeVars, groupVars, now, zaiVars, geminiVars, agVars>>

\* executeWithRetry 355-368: the refresh after an AuthError has answered
GeminiRetryRefreshed ==
    /\ provider = "gemini-cli" /\ pc = "gemini:refresh2"
    /\ \E r \in TokenResponses, written \in BOOLEAN :
         LET newToken == RefreshedToken(r, written)
         IN  /\ credFile' \in RefreshedFile(credFile, creds, r, written, now)
             /\ IF Truthy(newToken)
                THEN /\ accessToken' = newToken
                     /\ calls' = Append(Refreshed(calls, r, newToken),
                                        GeminiProjectRequest(newToken))
                     /\ pc' = "gemini:project2"
                     /\ result' = result
                ELSE /\ result' = GeminiCaught(TRUE, "Auth expired and refresh failed")
                     /\ pc' = "done"
                     /\ calls' = Refreshed(calls, r, newToken)
                     /\ accessToken' = accessToken
    /\ UNCHANGED <<provider, treeVars, groupVars, now, zaiVars, creds, agVars>>

\* Date.now() advances while the Gemini fetch awaits the network
Tick ==
    /\ provider = "gemini-cli" /\ pc \notin {"start", "done"}
    /\ now < 5000 + 1000 * MaxTicks
    /\ now' = now + 1000
    /\ UNCHANGED <<provider, treeVars, groupVars, pc, result, calls, zaiVars, geminiVars, agVars>>

----------------------------------------------------------------------------
(* Antigravity (src/providers/antigravity.ts)                              *)

MAX_RETRIES == 3
INITIAL_RETRY_DELAY_MS == 1000

\* endpoints = [CLOUD_CODE_BASE_URL, CLOUD_CODE_FALLBACK_BASE_URL]
endpoints == <<"https://cloudcode-pa.googleapis.com",
               "https://daily-cloudcode-pa.sandbox.googleapis.com">>

\* Text the code searches in, one character per element.
s_gemini_3_pro_high == <<"g", "e", "m", "i", "n", "i", "-", "3", "-", "p", "r", "o", "-", "h", "i", "g", "h">>
s_gemini_3_pro == <<"g", "e", "m", "i", "n", "i", "-", "3", "-", "p", "r", "o">>
s_gemini_3_flash == <<"g", "e", "m", "i", "n", "i", "-", "3", "-", "f", "l", "a", "s", "h">>
s_gemini_3_pro_image == <<"g", "e", "m", "i", "n", "i", "-", "3", "-", "p", "r", "o", "-", "i", "m", "a", "g", "e">>
s_gemini_3_image == <<"g", "e", "m", "i", "n", "i", "-", "3", "-", "i", "m", "a", "g", "e">>
s_claude_sonnet_4_5_thinking == <<"c", "l", "a", "u", "d", "e", "-", "s", "o", "n", "n", "e", "t", "-", "4", "-", "5", "-", "t", "h", "i", "n", "k", "i", "n", "g">>
s_claude == <<"c", "l", "a", "u", "d", "e">>
s_gpt == <<"g", "p", "t">>

MODEL_GROUPS ==
    <<[group |-> "Gemini 3 Pro", patterns |-> <<s_gemini_3_pro_high, s_gemini_3_pro>>],
      [group |-> "Gemini 3 Flash", patterns |-> <<s_gemini_3_flash>>],
      [group |-> "Gemini 3 Image", patterns |-> <<s_gemini_3_pro_image, s_gemini_3_image>>],
      [group |-> "Claude / GPT", patterns |-> <<s_claude_sonnet_4_5_thinking, s_claude, s_gpt>>]>>

UpperCase == <<"A", "B", "C", "D", "E", "F", "G", "H", "I", "J", "K", "L", "M",
               "N", "O", "P", "Q", "R", "S", "T", "U", "V", "W", "X", "Y", "Z">>
LowerCase == <<"a", "b", "c", "d", "e", "f", "g", "h", "i", "j", "k", "l", "m",
               "n", "o", "p", "q", "r", "s", "t", "u", "v", "w", "x", "y", "z">>
LowerOf == [c \in {UpperCase[i] : i \in DOMAIN UpperCase} |->
              LowerCase[CHOOSE i \in DOMAIN UpperCase : UpperCase[i] = c]]

LowerChar(c) == IF c \in DOMAIN LowerOf THEN LowerOf[c] ELSE c

\* String.prototype.toLowerCase
RECURSIVE toLowerCase(_)
toLowerCase(text) ==
    IF text = <<>> THEN <<>> ELSE <<LowerChar(Head(text))>> \o toLowerCase(Tail(text))

\* String.prototype.includes
includes(text, pattern) ==
    \E i \in 0..(Len(text) - Len(pattern)) : SubSeq(text, i + 1, i + Len(pattern)) = pattern

\* fetchModelQuotas 408-417: the first group one of whose patterns occurs in
\* the lower-cased id or display name; null when there is none
RECURSIVE FirstGroup(_, _)
FirstGroup(candidates, g) ==
    IF g > Len(MODEL_GROUPS) THEN Null
    ELSE IF \E p \in DOMAIN MODEL_GROUPS[g].patterns :
              \E c \in DOMAIN candidates :
                includes(candidates[c], toLowerCase(MODEL_GROUPS[g].patterns[p]))
    THEN MODEL_GROUPS[g].group
    ELSE FirstGroup(candidates, g + 1)

\* A variant of MatchGroup that compares the names as they are written.
MatchGroupExactCase(modelId, modelInfo) ==
    FirstGroup(<<modelId,
                 IF Has(modelInfo, "displayName") THEN modelInfo.displayName ELSE <<>>>>, 1)

MatchGroup(modelId, modelInfo) ==
    FirstGroup(<<toLowerCase(modelId),
                 toLowerCase(IF Has(modelInfo, "displayName")
                             THEN modelInfo.displayName ELSE <<>>)>>, 1)

\* A variant of AgRemainingPercent that takes a missing fraction for a full quota.
AgRemainingPercentMissingAsFull(quotaInfo) ==
    LET remainingFraction == IF Has(quotaInfo, "remainingFraction")
                             THEN quotaInfo.remainingFraction ELSE 1000
    IN  RoundTenths(Min(1000, Max(0, remainingFraction)))

\* fetchModelQuotas 405-406: remainingFraction (thousandths; a null one is a
\* missing field) clamped to [0, 1] and rounded to a percentage
AgRemainingPercent(quotaInfo) ==
    LET remainingFraction == IF Has(quotaInfo, "remainingFraction")
                             THEN quotaInfo.remainingFraction ELSE 0
    IN  RoundTenths(Min(1000, Max(0, remainingFraction)))

\* fetchModelQuotas 407 and 424: the Date of quotaInfo.resetTime, Undefined
\* when there is none or it is not a date
AgResetTime(quotaInfo) ==
    IF Has(quotaInfo, "resetTime") /\ Truthy(quotaInfo.resetTime)
       /\ quotaInfo.resetTime # "not-a-date"
    THEN quotaInfo.resetTime ELSE Undefined

\* The models the fetchAvailableModels responses of the model are made of.
s_claude_opus_4 == <<"c", "l", "a", "u", "d", "e", "-", "o", "p", "u", "s", "-", "4">>
s_Gemini_3_Flash == <<"G", "e", "m", "i", "n", "i", " ", "3", " ", "F", "l", "a", "s", "h">>

AgRawModels ==
    {[id |-> s_gemini_3_pro_high,
      info |-> [quotaInfo |-> [remainingFraction |-> 125, resetTime |-> "2026-02-01T00:00:00Z"]]],
     [id |-> s_gemini_3_flash,
      info |-> [displayName |-> s_Gemini_3_Flash,
                quotaInfo |-> [remainingFraction |-> 500, resetTime |-> "not-a-date"]]],
     [id |-> s_claude_opus_4,
      info |-> [quotaInfo |-> [remainingFraction |-> 1500]]]}

\* More models, for the grouping loop on its own: letter case in the id, a
\* match by display name only, no match, no quotaInfo, a null fraction, and
\* an entry at 100 percent.
s_gemini_3_PRO_high == <<"g", "e", "m", "i", "n", "i", "-", "3", "-", "P", "R", "O", "-", "h", "i", "g", "h">>
s_model_7 == <<"m", "o", "d", "e", "l", "-", "7">>
s_Claude_Opus_4 == <<"C", "l", "a", "u", "d", "e", " ", "O", "p", "u", "s", " ", "4">>
s_llama_4 == <<"l", "l", "a", "m", "a", "-", "4">>

AgMoreModels ==
    {[id |-> s_gemini_3_PRO_high,
      info |-> [quotaInfo |-> [remainingFraction |-> 1000, resetTime |-> "2026-03-01T00:00:00Z"]]],
     [id |-> s_gemini_3_pro,
      info |-> [quotaInfo |-> [resetTime |-> "2026-04-01T00:00:00Z"]]],
     [id |-> s_gemini_3_pro_image,
      info |-> [quotaInfo |-> [remainingFraction |-> 750, resetTime |-> "2026-05-01T00:00:00Z"]]],
     [id |-> s_gemini_3_image,
      info |-> [displayName |-> s_gemini_3_image]],
     [id |-> s_model_7,
      info |-> [displayName |-> s_Claude_Opus_4,
                quotaInfo |-> [remainingFraction |-> 500, resetTime |-> "2026-06-01T00:00:00Z"]]],
     [id |-> s_llama_4,
      info |-> [quotaInfo |-> [remainingFraction |-> 0, resetTime |-> "2026-07-01T00:00:00Z"]]]}

AgGroupModels == AgRawModels \cup AgMoreModels

\* MatchGroup on the models above, worked out once
GroupKeyOf == [m \in AgGroupModels |-> MatchGroup(m.id, m.info)]

InitialGroups ==
    [g \in {MODEL_GROUPS[i].group : i \in DOMAIN MODEL_GROUPS} |->
        [remaining |-> 100, resetTime |-> Undefined, found |-> FALSE]]

\* fetchModelQuotas 401-427: one pass of the loop over Object.entries(data.models)
GroupStep(groups, entry) ==
    IF ~Has(entry.info, "quotaInfo") THEN groups
    ELSE LET remainingPercent == AgRemainingPercent(entry.info.quotaInfo)
             groupKey == GroupKeyOf[entry]
         IN  IF groupKey = Null THEN groups
             ELSE [groups EXCEPT ![groupKey] =
                     IF remainingPercent < @.remaining
                     THEN [remaining |-> remainingPercent,
                           resetTime |-> AgResetTime(entry.info.quotaInfo),
                           found |-> TRUE]
                     ELSE [@ EXCEPT !.found = TRUE]]

RECURSIVE GroupAll(_, _)
GroupAll(groups, entries) ==
    IF entries = <<>> THEN groups
    ELSE GroupAll(GroupStep(groups, Head(entries)), Tail(entries))

AgModel(name, g) ==
    LET base == [name |-> name, displayName |-> name,
                 remainingPercent |-> g.remaining,
                 usedPercent |-> 100 - g.remaining]
    IN  IF g.resetTime # Undefined THEN base @@ [resetTime |-> g.resetTime] ELSE base

\* A variant of AgModelsFrom that emits every group, found or not.
AgModelsFromEvery(groups, i) ==
    [k \in 1..(Len(MODEL_GROUPS) + 1 - i) |->
        AgModel(MODEL_GROUPS[k + i - 1].group, groups[MODEL_GROUPS[k + i - 1].group])]

\* fetchModelQuotas 430-438: the groups found, in the order of declaration
RECURSIVE AgModelsFrom(_, _)
AgModelsFrom(groups, i) ==
    IF i > Len(MODEL_GROUPS) THEN <<>>
    ELSE LET name == MODEL_GROUPS[i].group
         IN  (IF groups[name].found THEN <<AgModel(name, groups[name])>> ELSE <<>>)
                \o AgModelsFrom(groups, i + 1)

\* fetchModelQuotas 389-440: the models of a decoded 2xx body
AgNormalize(body) ==
    AgModelsFrom(GroupAll(InitialGroups, IF Has(body, "models") THEN body.models ELSE <<>>), 1)

\* loadOpencodeAccounts / loadProxyAccounts: the accounts of the first file
\* that can be read and parsed
RECURSIVE loadAccounts(_)
loadAccounts(files) ==
    IF files = <<>> THEN <<>>
    ELSE IF Has(Head(files), "file") THEN loadAccounts(Tail(files))
    ELSE IF Has(Head(files), "accounts") THEN Head(files).accounts
    ELSE <<>>

\* extractTokenFromDatabase: the apiKey stored in the database, null when the
\* file, the row or the key is missing
extractTokenFromDatabase(store, dbPath) ==
    IF dbPath \in DOMAIN store.db /\ Truthy(store.db[dbPath]) THEN store.db[dbPath] ELSE Null

IdeDatabasePath == "Antigravity/state.vscdb"

\* getAllAccountSources 165-212: the sources in the order they are tried
AgQueue(store) ==
    LET oc == loadAccounts(store.opencodeFiles)
        px == loadAccounts(<<store.proxyFile>>)
    IN  [i \in DOMAIN oc |-> [src |-> "opencode", acc |-> oc[i]]]
            \o [i \in DOMAIN px |-> [src |-> "proxy", acc |-> px[i]]]
            \o <<[src |-> "ide"]>>

Opt(r, f) == IF Has(r, f) THEN r[f] ELSE Undefined

\* the sources whose token comes from the token endpoint
NeedsRefresh(item) ==
    \/ item.src = "opencode"
    \/ item.src = "proxy" /\ item.acc.source = "oauth" /\ Truthy(Opt(item.acc, "refreshToken"))

\* A variant of AgRefreshedToken that takes a token out of any answer.
AgRefreshedTokenFromAnyAnswer(r) ==
    IF r.kind = "throw" THEN Null
    ELSE IF ~ResponseOk(r) THEN "at-error-page"
    ELSE Opt(r.body, "access_token")

\* AntigravityProvider.refreshToken: the token returned for response r
AgRefreshedToken(r) ==
    IF r.kind = "throw" THEN Null
    ELSE IF ~ResponseOk(r) THEN Null
    ELSE Opt(r.body, "access_token")

\* getAllAccountSources: the list after source `item` was tried, `token`
\* being what refreshToken returned for it (when it needs one)
WithSource(store, sources, item, token) ==
    IF item.src = "opencode"
    THEN IF Truthy(token)
         THEN Append(sources,
                [email |-> IF Truthy(Opt(item.acc, "email")) THEN item.acc.email
                           ELSE "opencode-account",
                 source |-> "opencode",
                 accessToken |-> token,
                 projectId |-> Opt(item.acc, "projectId"),
                 managedProjectId |-> Opt(item.acc, "managedProjectId")])
         ELSE sources
    ELSE IF item.src = "proxy"
    THEN IF item.acc.source = "oauth" /\ Truthy(Opt(item.acc, "refreshToken"))
         THEN IF Truthy(token)
              THEN Append(sources,
                     [email |-> item.acc.email, source |-> "proxy-oauth",
                      accessToken |-> token,
                      projectId |-> Undefined, managedProjectId |-> Undefined])
              ELSE sources
         ELSE IF item.acc.source = "database" /\ Truthy(Opt(item.acc, "dbPath"))
         THEN LET dbToken == extractTokenFromDatabase(store, item.acc.dbPath)
              IN  IF Truthy(dbToken)
                  THEN Append(sources,
                         [email |-> item.acc.email, source |-> "proxy-db",
                          accessToken |-> dbToken,
                          projectId |-> Undefined, managedProjectId |-> Undefined])
                  ELSE sources
         ELSE sources
    ELSE LET ideToken == extractTokenFromDatabase(store, IdeDatabasePath)
         IN  IF Truthy(ideToken)
                /\ ~\E i \in DOMAIN sources : sources[i].source = "antigravity-ide"
             THEN Append(sources,
                    [email |-> "Antigravity IDE", source |-> "antigravity-ide",
                     accessToken |-> ideToken,
                     projectId |-> Undefined, managedProjectId |-> Undefined])
             ELSE sources

\* extractProjectId: the JSON string s is [string |-> s], a JSON object is
\* the record of its fields
extractProjectId(project) ==
    IF Has(project, "string") THEN (IF project.string # "" THEN project.string ELSE Undefined)
    ELSE IF Has(project, "id") /\ Truthy(project.id) THEN project.id
    ELSE Undefined

\* A variant of AgProjectId that prefers the id loadCodeAssist resolved.
AgProjectIdFreshFirst(account, info) ==
    IF Truthy(info.projectId) THEN info.projectId
    ELSE IF Truthy(account.projectId) THEN account.projectId
    ELSE IF Truthy(account.managedProjectId) THEN account.managedProjectId
    ELSE Undefined

\* fetchQuota 270: account.projectId || account.managedProjectId || projectInfo.projectId
AgProjectId(account, info) ==
    IF Truthy(account.projectId) THEN account.projectId
    ELSE IF Truthy(account.managedProjectId) THEN account.managedProjectId
    ELSE IF Truthy(info.projectId) THEN info.projectId
    ELSE Undefined

\* fetchProjectInfo: the ProjectInfo for response r (the subscription tier, which
\* is only displayed, is left out)
AgProjectInfo(r) ==
    IF r.kind = "throw" \/ ~ResponseOk(r) THEN [projectId |-> Null]
    ELSE LET id == IF Has(r.body, "cloudaicompanionProject")
                   THEN extractProjectId(r.body.cloudaicompanionProject) ELSE Undefined
         IN  [projectId |-> IF Truthy(id) THEN id ELSE Null]

\* fetchQuota 273-280: the AccountQuota pushed for a QuotaResult
\* A variant of AgAccount that reads the health off the models alone.
AgAccountHealthFromModels(account, quotaResult) ==
    [id |-> account.email, name |-> account.email,
     models |-> quotaResult.models,
     overallHealth |-> calculateOverallHealth(quotaResult.models)]
        @@ (IF quotaResult.isForbidden THEN [isForbidden |-> TRUE] ELSE <<>>)

\* fetchQuota 273-280: the account pushed for what fetchModelQuotas returned
AgAccount(account, quotaResult) ==
    [id |-> account.email, name |-> account.email,
     models |-> quotaResult.models,
     overallHealth |-> IF quotaResult.isForbidden THEN "critical"
                       ELSE calculateOverallHealth(quotaResult.models)]
        @@ (IF quotaResult.isForbidden THEN [isForbidden |-> TRUE] ELSE <<>>)

AgQuotaRequest(endpoint, n, token, project) ==
    [api |-> "fetchAvailableModels", endpoint |-> endpoint, attempt |-> n,
     authorization |-> token, project |-> project]

\* What the remotes may answer.
AccessTokenFor(refreshToken) == "at-" \o refreshToken

AgTokenResponses(item) ==
    {[kind |-> "throw", error |-> "TypeError: fetch failed"],
     [kind |-> "http", status |-> 400],
     [kind |-> "http", status |-> 200, body |-> [scope |-> "none"]],
     [kind |-> "http", status |-> 200,
      body |-> [access_token |-> AccessTokenFor(Opt(item.acc, "refreshToken"))]]}

AgProjectResponses ==
    {[kind |-> "throw", error |-> "TypeError: fetch failed"],
     [kind |-> "http", status |-> 403],
     [kind |-> "http", status |-> 200, body |-> [x |-> 0]],
     [kind |-> "http", status |-> 200,
      body |-> [cloudaicompanionProject |-> [string |-> "proj-fresh"]]],
     [kind |-> "http", status |-> 200,
      body |-> [cloudaicompanionProject |-> [id |-> "proj-fresh"]]]}

\* the keys of a JSON object are distinct
DistinctIds(models) == \A i, j \in DOMAIN models : models[i].id = models[j].id => i = j

AgQuotaBodies ==
    {[x |-> 0]} \cup {[models |-> m] : m \in {q \in SeqUpTo(AgRawModels, MaxModels) : DistinctIds(q)}}

AgQuotaResponses ==
    {[kind |-> "throw", error |-> "TypeError: fetch failed"]}
        \cup [kind : {"http"}, status : {403, 500}]
        \cup [kind : {"http"}, status : {200}, body : AgQuotaBodies]

\* A variant of AgAfterSources that goes on with no source at all.
AgAfterSourcesOkEmpty(sources) ==
    IF Len(sources) = 0
    THEN [pc |-> "done", agIdx |-> 1, result |-> OkResult(<<>>)]
    ELSE [pc |-> "antigravity:project", agIdx |-> 1, result |-> NoResult]

\* fetchQuota 258-266: without a source the fetch returns at once, else its
\* loop starts on the first account
AgAfterSources(sources) ==
    IF Len(sources) = 0
    THEN [pc |-> "done", agIdx |-> 1,
          result |-> createNotConfiguredResult(
                       "Run 'opencode auth login' or install Antigravity IDE")]
    ELSE [pc |-> "antigravity:project", agIdx |-> 1, result |-> NoResult]

\* getAllAccountSources, one source per step: source agIdx is tried (its token
\* requested and answered); after the last one fetchQuota 258-262 goes on
AgResolveSource ==
    /\ provider = "antigravity" /\ pc \in {"start", "antigravity:sources"}
    /\ LET queue == AgQueue(agStore)
           item == queue[agIdx]
       IN  \E r \in (IF NeedsRefresh(item) THEN AgTokenResponses(item) ELSE {[kind |-> "none"]}) :
             LET token == IF NeedsRefresh(item) THEN AgRefreshedToken(r) ELSE Null
                 sources == WithSource(agStore, accountSources, item, token)
             IN  /\ accountSources' = sources
                 /\ calls' = IF NeedsRefresh(item)
                             THEN Append(calls, [api |-> "token",
                                                 refresh_token |-> Opt(item.acc, "refreshToken"),
                                                 response |-> r, returned |-> token])
                             ELSE calls
                 /\ IF agIdx < Len(queue)
                    THEN /\ agIdx' = agIdx + 1
                         /\ pc' = "antigravity:sources"
                         /\ result' = result
                    ELSE /\ agIdx' = AgAfterSources(sources).agIdx
                         /\ pc' = AgAfterSources(sources).pc
                         /\ result' = AgAfterSources(sources).result
    /\ UNCHANGED <<provider, treeVars, groupVars, now, zaiVars, geminiVars,
                   agStore, agProjectId, endpointIdx, attempt, accounts, served>>

\* fetchQuota 266-270: fetchProjectInfo has answered for account agIdx
AgFetchProjectInfo ==
    /\ provider = "antigravity" /\ pc = "antigravity:project"
    /\ \E r \in AgProjectResponses :
         /\ agProjectId' = AgProjectId(accountSources[agIdx], AgProjectInfo(r))
         /\ calls' = <<[api |-> "loadCodeAssist",
                        authorization |-> accountSources[agIdx].accessToken,
                        returned |-> AgProjectInfo(r)]>>
    /\ endpointIdx' = 1 /\ attempt' = 1
    /\ pc' = "antigravity:quota"
    /\ UNCHANGED <<provider, treeVars, groupVars, result, now, zaiVars, geminiVars,
                   agStore, accountSources, agIdx, accounts, served>>

\* A variant of AgAfterFailure that moves to the next endpoint after the
\* first failure.
AgAfterFailureEagerFallback(n, e) ==
    IF e < Len(endpoints) THEN [next |-> "endpoint"]
    ELSE IF n < MAX_RETRIES
    THEN [next |-> "retry", sleep |-> INITIAL_RETRY_DELAY_MS * n]
    ELSE [next |-> "return", quotaResult |-> [models |-> <<>>, isForbidden |-> FALSE]]

\* fetchModelQuotas 379-386 and 441-448, then 452: after a failed attempt n
\* on endpoint e, sleep and retry, or break to the next endpoint, or give up
AgAfterFailure(n, e) ==
    IF n < MAX_RETRIES
    THEN [next |-> "retry", sleep |-> INITIAL_RETRY_DELAY_MS * n]
    ELSE IF e < Len(endpoints)
    THEN [next |-> "endpoint"]
    ELSE [next |-> "return", quotaResult |-> [models |-> <<>>, isForbidden |-> FALSE]]

\* A variant of AgAttemptOutcome that handles 403 like any other failure.
AgAttemptOutcomeRetrying403(r, n, e) ==
    IF r.kind = "throw" \/ ~ResponseOk(r)
    THEN AgAfterFailure(n, e)
    ELSE [next |-> "return",
          quotaResult |-> [models |-> AgNormalize(r.body), isForbidden |-> FALSE]]

\* fetchModelQuotas 362-452: what one answered attempt leads to
AgAttemptOutcome(r, n, e) ==
    IF r.kind = "http" /\ r.status = 403
    THEN [next |-> "return", quotaResult |-> [models |-> <<>>, isForbidden |-> TRUE]]
    ELSE IF r.kind = "throw" \/ ~ResponseOk(r)
    THEN AgAfterFailure(n, e)
    ELSE [next |-> "return",
          quotaResult |-> [models |-> AgNormalize(r.body), isForbidden |-> FALSE]]

\* A variant of AgAfterAccount that gives the fetch up at a forbidden account.
AgAfterAccountStopAtForbidden(accts, idx, sources) ==
    IF Has(accts[Len(accts)], "isForbidden")
    THEN [pc |-> "done", agIdx |-> idx, result |-> createErrorResult("Error: 403", Undefined)]
    ELSE IF idx < Len(sources)
    THEN [pc |-> "antigravity:project", agIdx |-> idx + 1, result |-> NoResult]
    ELSE [pc |-> "done", agIdx |-> idx, result |-> OkResult(accts)]

\* fetchQuota 291-298, or the next pass of its loop over accountSources
AgAfterAccount(accts, idx, sources) ==
    IF idx < Len(sources)
    THEN [pc |-> "antigravity:project", agIdx |-> idx + 1, result |-> NoResult]
    ELSE [pc |-> "done", agIdx |-> idx, result |-> OkResult(accts)]

\* fetchModelQuotas, one attempt per step, and fetchQuota 273-298 when it returns
AgFetchModelQuotas ==
    /\ provider = "antigravity" /\ pc = "antigravity:quota"
    /\ \E r \in AgQuotaResponses :
         LET account == accountSources[agIdx]
             request == AgQuotaRequest(endpoints[endpointIdx], attempt,
                                       account.accessToken, agProjectId)
             log == Append(calls, request @@ [response |-> r])
             out == AgAttemptOutcome(r, attempt, endpointIdx)
         IN  IF out.next = "retry"
             THEN /\ calls' = Append(log, [api |-> "sleep", ms |-> out.sleep])
                  /\ attempt' = attempt + 1
                  /\ UNCHANGED <<pc, result, agIdx, endpointIdx, accounts, served>>
             ELSE IF out.next = "endpoint"
             THEN /\ calls' = log
                  /\ endpointIdx' = endpointIdx + 1 /\ attempt' = 1
                  /\ UNCHANGED <<pc, result, agIdx, accounts, served>>
             ELSE LET accts == Append(accounts, AgAccount(account, out.quotaResult))
                      after == AgAfterAccount(accts, agIdx, accountSources)
                  IN  /\ calls' = log
                      /\ accounts' = accts
                      /\ served' = Append(served, r)
                      /\ pc' = after.pc /\ agIdx' = after.agIdx /\ result' = after.result
                      /\ UNCHANGED <<endpointIdx, attempt>>
    /\ UNCHANGED <<provider, treeVars, groupVars, now, zaiVars, geminiVars, agStore, accountSources, agProjectId>>

----------------------------------------------------------------------------
(* The tree view (QuotaTreeItem, src/unnamed/part_003 9-162)               *)

\* A variant of ModelHealth with the two lower classes swapped.
ModelHealthSwapped(remainingPercent) ==
    IF remainingPercent >= 70 THEN "good"
    ELSE IF remainingPercent >= 30 THEN "critical"
    ELSE "warning"

\* configureModel 125-129: the health icon of a model row
ModelHealth(remainingPercent) ==
    IF remainingPercent >= 70 THEN "good"
    ELSE IF remainingPercent >= 30 THEN "warning"
    ELSE "critical"

\* getWorstHealth 147-152
healthPriority == [critical |-> 3, warning |-> 2, unknown |-> 1, good |-> 0]

\* getWorstHealth 154-160: the loop over accounts from index i on
RECURSIVE WorstFrom(_, _, _)
WorstFrom(accts, i, worst) ==
    IF i > Len(accts) THEN worst
    ELSE WorstFrom(accts, i + 1,
                   IF healthPriority[accts[i].overallHealth] > healthPriority[worst]
                   THEN accts[i].overallHealth ELSE worst)

getWorstHealth(accts) ==
    IF Len(accts) = 0 THEN "unknown" ELSE WorstFrom(accts, 1, "good")

NoIcons == [provider |-> "none"]

\* the icons of the rows under a provider whose result has status ok:
\* configureProvider 41, configureAccount 76, configureModel 125-130
TreeIcons(res) ==
    [provider |-> getWorstHealth(res.accounts),
     accounts |-> [k \in DOMAIN res.accounts |->
                     [account |-> res.accounts[k].overallHealth,
                      models |-> [i \in DOMAIN res.accounts[k].models |->
                                    ModelHealth(res.accounts[k].models[i].remainingPercent)]]]]

\* The results the tree view is followed over: one account with models, alone
\* or next to an account without models.
TreePercents == {-25, 0, 29, 30, 69, 70, 100}

TreeModel(p) == [name |-> "tokens_limit", remainingPercent |-> p, usedPercent |-> 100 - p]

TreeAccount(models) ==
    [id |-> "default", name |-> "Z.AI", models |-> models,
     overallHealth |-> calculateOverallHealth(models)]

TreeSiblings ==
    {[id |-> "b@x", name |-> "b@x", models |-> <<>>, overallHealth |-> "unknown"],
     [id |-> "c@x", name |-> "c@x", models |-> <<>>, overallHealth |-> "critical",
      isForbidden |-> TRUE]}

TreeResults ==
    LET shown == {[i \in DOMAIN q |-> TreeModel(q[i])] :
                     q \in SeqUpTo(TreePercents, MaxShown) \ {<<>>}}
    IN  {OkResult(<<TreeAccount(m)>>) : m \in shown}
            \cup {OkResult(<<TreeAccount(m), sib>>) : m \in shown, sib \in TreeSiblings}

\* A later refresh reports less remaining quota for one model, everything else
\* as before, and the tree is rendered again.
LowerQuota ==
    /\ provider = "tree"
    /\ \E k \in DOMAIN result.accounts :
         \E i \in DOMAIN result.accounts[k].models :
           \E p \in TreePercents :
             /\ p < result.accounts[k].models[i].remainingPercent
             /\ LET models == [result.accounts[k].models EXCEPT ![i] = TreeModel(p)]
                    res == [result EXCEPT !.accounts[k] = TreeAccount(models)]
                IN  /\ result' = res
                    /\ icons' = TreeIcons(res)
                    /\ iconsBefore' = icons
    /\ UNCHANGED <<provider, pc, calls, now, zaiVars, geminiVars, agVars, groupVars>>

----------------------------------------------------------------------------
(* The grouping loop of fetchModelQuotas (antigravity.ts 394-438), one     *)
(* entry of data.models at a time.                                         *)

\* fetchModelQuotas 401-427: one pass of the loop
GroupEntry ==
    /\ provider = "antigravity:groups" /\ pc = "groups:loop"
    /\ agEntryIdx <= Len(agEntries)
    /\ LET entry == agEntries[agEntryIdx]
       IN  /\ agGroups' = GroupStep(agGroups, entry)
           /\ agGroupKeys' = Append(agGroupKeys,
                                    IF Has(entry.info, "quotaInfo")
                                    THEN GroupKeyOf[entry] ELSE Undefined)
    /\ agEntryIdx' = agEntryIdx + 1
    /\ UNCHANGED <<provider, pc, result, calls, now, zaiVars, geminiVars, agVars,
                   treeVars, agEntries, agModels>>

\* fetchModelQuotas 430-438: the loop is over, the groups become the models
GroupEmit ==
    /\ provider = "antigravity:groups" /\ pc = "groups:loop"
    /\ agEntryIdx > Len(agEntries)
    /\ agModels' = AgModelsFrom(agGroups, 1)
    /\ pc' = "done"
    /\ UNCHANGED <<provider, result, calls, now, zaiVars, geminiVars, agVars,
                   treeVars, agEntries, agEntryIdx, agGroups, agGroupKeys>>

----------------------------------------------------------------------------
(* The specification.                                                      *)

NoFile == [file |-> "missing"]
NoStore == [opencodeFiles |-> <<NoFile, NoFile>>, proxyFile |-> NoFile, db |-> <<>>]

ZaiEnvs == {e \in [EnvNames -> {Undefined, "sk-env", "sk-env2"}] :
              /\ \A n \in EnvNames \ {"ZAI_API_KEY", "ZHIPU_API_KEY"} : e[n] = Undefined
              /\ e["ZAI_API_KEY"] # "sk-env2" /\ e["ZHIPU_API_KEY"] # "sk-env"}

InitZai ==
    /\ provider = "zai"
    /\ env \in ZaiEnvs
    /\ storedApiKey \in {Undefined, "", "sk-test"}
    /\ credFile = NoCreds
    /\ agStore = NoStore

GeminiEnvs == {e \in [EnvNames -> {Undefined, "", "AIza-key"}] :
                 /\ \A n \in EnvNames \ {"GEMINI_API_KEY", "GOOGLE_API_KEY"} : e[n] = Undefined
                 /\ e["GOOGLE_API_KEY"] # ""}

GeminiCredFiles ==
    {NoCreds, [file |-> "garbage"]}
        \cup [access_token : {"tok-old"}, refresh_token : {"rt-1"}]
        \cup [access_token : {"tok-old"}, refresh_token : {"rt-1"},
              expiry_date : {0, 4000, 5000, 6000}]
        \cup [access_token : {"tok-old"}, refresh_token : {"rt-1"},
              expiry_date : {4000, 9000},
              client_id : {"custom-id"}, client_secret : {"custom-secret"}]

InitGemini ==
    /\ provider = "gemini-cli"
    /\ env \in GeminiEnvs
    /\ storedApiKey = Undefined
    /\ credFile \in GeminiCredFiles
    /\ agStore = NoStore

AcctA == [email |-> "a@x", refreshToken |-> "rt-a", projectId |-> "proj-cfg",
          managedProjectId |-> "proj-managed-a"]
AcctB == [refreshToken |-> "rt-b", managedProjectId |-> "proj-managed"]
AcctC == [email |-> "c@x", refreshToken |-> "rt-c"]
ProxyA == [email |-> "a@x", source |-> "oauth", refreshToken |-> "rt-a2"]
ProxyD == [email |-> "d@x", source |-> "database", dbPath |-> "proxy/d.vscdb"]
ProxyE == [email |-> "e@x", source |-> "manual", apiKey |-> "key-e"]
ProxyF == [email |-> "f@x", source |-> "oauth"]
ProxyG == [email |-> "g@x", source |-> "database", dbPath |-> "proxy/g.vscdb"]

\* The account stores on disk the Antigravity fetch is run against.
AgStores ==
    {NoStore,
     [opencodeFiles |-> <<[accounts |-> <<AcctA>>], NoFile>>,
      proxyFile |-> [file |-> "garbage"], db |-> <<>>],
     [opencodeFiles |-> <<[file |-> "garbage"], [accounts |-> <<AcctB, AcctC>>]>>,
      proxyFile |-> [activeIndex |-> 0], db |-> <<>>],
     [opencodeFiles |-> <<[accounts |-> <<AcctA>>], [accounts |-> <<AcctC>>]>>,
      proxyFile |-> [accounts |-> <<ProxyA>>], db |-> <<>>],
     [opencodeFiles |-> <<[activeIndex |-> 0], NoFile>>,
      proxyFile |-> [accounts |-> <<ProxyD, ProxyE, ProxyF>>],
      db |-> ("proxy/d.vscdb" :> "db-tok-d" @@ IdeDatabasePath :> "ide-tok")],
     [opencodeFiles |-> <<NoFile, NoFile>>,
      proxyFile |-> [accounts |-> <<ProxyG>>],
      db |-> ("proxy/g.vscdb" :> "" @@ IdeDatabasePath :> Null)]}

InitAntigravity ==
    /\ provider = "antigravity"
    /\ env = NoEnv
    /\ storedApiKey = Undefined
    /\ credFile = NoCreds
    /\ agStore \in AgStores

\* the extension's key handling is left out: no setting, no secret, no invocation
NoKeyUpdate ==
    /\ settingKey = Undefined /\ secretKey = Undefined
    /\ pendingUpdates = 0 /\ updatesBegun = 0 /\ settingChanges = 0
    /\ keySource = "none" /\ lastSettingRead = Undefined

\* no grouping loop is under way
NoGrouping ==
    /\ agEntries = <<>> /\ agEntryIdx = 1
    /\ agGroups = InitialGroups /\ agGroupKeys = <<>>
    /\ agModels = NoResult

Init ==
    /\ pc = "start"
    /\ result = NoResult
    /\ calls = <<>>
    /\ now = 5000
    /\ creds = NoCreds /\ accessToken = Undefined
    /\ accountSources = <<>> /\ agIdx = 1 /\ agProjectId = Undefined
    /\ endpointIdx = 1 /\ attempt = 1
    /\ accounts = <<>> /\ served = <<>>
    /\ icons = NoIcons /\ iconsBefore = NoIcons
    /\ NoGrouping /\ NoKeyUpdate
    /\ InitZai \/ InitGemini \/ InitAntigravity

Next ==
    \/ ZaiFetchQuota
    \/ ZaiResponse
    \/ GeminiFetchQuota
    \/ GeminiRefreshed
    \/ GeminiProjectId
    \/ GeminiQuota
    \/ GeminiRetryRefreshed
    \/ Tick
    \/ AgResolveSource
    \/ AgFetchProjectInfo
    \/ AgFetchModelQuotas

Spec == Init /\ [][Next]_vars

\* no fetch is under way
NoFetch ==
    /\ calls = <<>> /\ now = 5000
    /\ env = NoEnv /\ storedApiKey = Undefined
    /\ NoKeyUpdate
    /\ credFile = NoCreds /\ creds = NoCreds /\ accessToken = Undefined
    /\ agStore = NoStore
    /\ accountSources = <<>> /\ agIdx = 1 /\ agProjectId = Undefined
    /\ endpointIdx = 1 /\ attempt = 1
    /\ accounts = <<>> /\ served = <<>>

\* The tree view over the results of successive refreshes.
InitTree ==
    /\ provider = "tree" /\ pc = "done"
    /\ NoFetch /\ NoGrouping
    /\ result \in TreeResults
    /\ icons = TreeIcons(result)
    /\ iconsBefore = NoIcons

NextTree == LowerQuota

SpecTree == InitTree /\ [][NextTree]_vars

\* The grouping loop over one decoded body of fetchAvailableModels.
InitGroups ==
    /\ provider = "antigravity:groups" /\ pc = "groups:loop"
    /\ NoFetch
    /\ result = NoResult
    /\ icons = NoIcons /\ iconsBefore = NoIcons
    /\ agEntries \in {q \in SeqUpTo(AgGroupModels, MaxModels) : DistinctIds(q)}
    /\ agEntryIdx = 1
    /\ agGroups = InitialGroups /\ agGroupKeys = <<>>
    /\ agModels = NoResult

NextGroups == GroupEntry \/ GroupEmit

SpecGroups == InitGroups /\ [][NextGroups]_vars

\* The extension from its activation on: the module-level key of zai.ts is
\* not set yet, updateZaiApiKey runs whenever it is called, and a refresh may
\* start the Z.AI fetch at any time.
InitZaiKey ==
    /\ provider = "zai" /\ pc = "start"
    /\ result = NoResult /\ calls = <<>> /\ now = 5000
    /\ env \in {NoEnv, [NoEnv EXCEPT !["ZAI_API_KEY"] = "sk-env"]}
    /\ storedApiKey = Undefined
    /\ settingKey \in {Undefined, "", "sk-test"}
    /\ secretKey \in {Undefined, "sk-secret"}
    /\ pendingUpdates = 0 /\ updatesBegun = 0 /\ settingChanges = 0
    /\ keySource = "none" /\ lastSettingRead = Undefined
    /\ credFile = NoCreds /\ creds = NoCreds /\ accessToken = Undefined
    /\ agStore = NoStore
    /\ accountSources = <<>> /\ agIdx = 1 /\ agProjectId = Undefined
    /\ endpointIdx = 1 /\ attempt = 1
    /\ accounts = <<>> /\ served = <<>>
    /\ icons = NoIcons /\ iconsBefore = NoIcons
    /\ NoGrouping

NextZaiKey ==
    \/ ChangeSetting
    \/ updateZaiApiKey
    \/ updateZaiApiKeyResumed
    \/ ZaiFetchQuota
    \/ ZaiKeyResponse

SpecZaiKey == InitZaiKey /\ [][NextZaiKey]_vars

----------------------------------------------------------------------------
(* Properties.                                                             *)

\* positions in the log of the requests to one API
After(i, api) == {j \in DOMAIN calls : j > i /\ calls[j].api = api}

\* a project-id or quota call of the Gemini fetch that was answered 401 or 403
AuthFailure(c) ==
    /\ c.api \in {"loadCodeAssist", "retrieveUserQuota"}
    /\ Has(c, "response")
    /\ c.response.kind = "http"
    /\ c.response.status \in {401, 403}

AuthFailures == {i \in DOMAIN calls : AuthFailure(calls[i])}
FirstAuthFailure == CHOOSE i \in AuthFailures : \A j \in AuthFailures : i <= j

\* the fetch has returned what createAuthExpiredResult builds
GeminiAuthExpired ==
    pc = "done" /\ result = createAuthExpiredResult("Run 'gemini' to re-authenticate")

\* C1 as stated: once a Gemini fetch that met a 401/403 has ended, it made
\* exactly one token refresh and exactly one retry after the failure, and a
\* 401/403 on the retry ended it with auth_expired.
C1_AsStated ==
    (provider = "gemini-cli" /\ pc = "done" /\ AuthFailures # {}) =>
        LET i == FirstAuthFailure
        IN  /\ Cardinality(After(i, "token")) = 1
            /\ Cardinality(After(i, "loadCodeAssist")) = 1
            /\ \A j \in AuthFailures :
                 j > i => j = Len(calls) /\ GeminiAuthExpired

\* C1 (amended): a 401/403 from the project-id or the quota call is followed at
\* once by one token refresh, and by no other.  When that refresh returns a
\* token the calls are retried exactly once, with the new token; when it
\* returns none there is no retry and the fetch ends with auth_expired.  A
\* 401/403 on the retry ends the fetch with auth_expired: no third attempt.
C1_RefreshOnceRetryOnce ==
    (provider = "gemini-cli" /\ AuthFailures # {}) =>
        LET i == FirstAuthFailure
        IN  /\ After(i, "token") = {i + 1}
            /\ IF ~Has(calls[i + 1], "returned")
               THEN Len(calls) = i + 1 /\ pc = "gemini:refresh2"
               ELSE IF Truthy(calls[i + 1].returned)
               THEN /\ After(i, "loadCodeAssist") = {i + 2}
                    /\ After(i, "retrieveUserQuota") \subseteq {i + 3}
                    /\ \A j \in (i + 2)..Len(calls) :
                         calls[j].authorization = calls[i + 1].returned
               ELSE Len(calls) = i + 1 /\ GeminiAuthExpired
            /\ \A j \in AuthFailures :
                 j > i => j = Len(calls) /\ GeminiAuthExpired

\* the quota call fails with 401/403, the refresh succeeds, the retried quota
\* call fails with 401/403 again
C1_Witness ==
    /\ provider = "gemini-cli" /\ pc = "done"
    /\ Cardinality(AuthFailures) = 2
    /\ \A i \in AuthFailures : calls[i].api = "retrieveUserQuota"
    /\ GeminiAuthExpired

\* C2: when the stored credentials carry no expiry_date, or one that is not in
\* the future when the fetch starts, the first request of the fetch is the
\* token refresh, and the first API call carries the token it returned; when
\* the refresh returns no token the fetch ends with auth_expired and that
\* refresh stays its only request.
C2_StaleTokenRefreshedFirst ==
    (/\ provider = "gemini-cli" /\ pc # "start"
     /\ ~IsNullCreds(creds)
     /\ (~Has(creds, "expiry_date") \/ creds.expiry_date <= 5000)) =>
        /\ Len(calls) >= 1
        /\ calls[1].api = "token"
        /\ IF ~Has(calls[1], "returned")
           THEN Len(calls) = 1 /\ pc = "gemini:refresh"
           ELSE IF Truthy(calls[1].returned)
           THEN /\ Len(calls) >= 2
                /\ calls[2].api = "loadCodeAssist"
                /\ calls[2].authorization = calls[1].returned
           ELSE Len(calls) = 1 /\ GeminiAuthExpired

\* credentials without expiry_date: refreshed, then fetched successfully
C2_Witness ==
    /\ provider = "gemini-cli" /\ pc = "done"
    /\ ~IsNullCreds(creds) /\ ~Has(creds, "expiry_date")
    /\ calls[1].api = "token" /\ Len(calls) = 3
    /\ result.status = "ok"

\* positions in the log of the fetchAvailableModels attempts
QuotaCalls == {i \in DOMAIN calls : calls[i].api = "fetchAvailableModels"}

Forbidden(c) ==
    c.api = "fetchAvailableModels" /\ c.response.kind = "http" /\ c.response.status = 403

\* an attempt that was answered with a non-success other than 403, or threw
Failed(c) ==
    /\ c.api = "fetchAvailableModels"
    /\ \/ c.response.kind = "throw"
       \/ c.response.kind = "http" /\ ~ResponseOk(c.response) /\ c.response.status # 403

\* C3: a 403 from the model-quota endpoint, at whatever attempt and endpoint,
\* is the last request made for its account: no retry, no sleep, no token
\* refresh and no fallback endpoint follows it; the account is recorded at once
\* as forbidden, with no models and health critical.
C3_ForbiddenEndsAccountFetch ==
    provider = "antigravity" =>
        \A i \in DOMAIN calls :
            Forbidden(calls[i]) =>
                /\ i = Len(calls)
                /\ pc # "antigravity:quota"
                /\ Len(accounts) >= 1
                /\ LET k == Len(accounts)
                   IN  /\ calls[i].authorization = accountSources[k].accessToken
                       /\ accounts[k] = [id |-> accountSources[k].email,
                                         name |-> accountSources[k].email,
                                         models |-> <<>>,
                                         overallHealth |-> "critical",
                                         isForbidden |-> TRUE]

\* a 403 at the second attempt on the fallback endpoint
C3_Witness ==
    /\ provider = "antigravity"
    /\ \E i \in DOMAIN calls :
         /\ Forbidden(calls[i])
         /\ calls[i].endpoint = endpoints[2] /\ calls[i].attempt = 2
    /\ Cardinality(QuotaCalls) = 5
    /\ accounts[Len(accounts)].overallHealth = "critical"

\* C4: every account the fetch has finished with is recorded under its own
\* e-mail, whatever happened to the accounts before it; one whose last call
\* succeeded carries the models of that response and is not forbidden; and a
\* fetch over at least one account ends with status ok and one entry per
\* account.
C4_FailedAccountLeavesOthers ==
    provider = "antigravity" =>
        /\ Len(served) = Len(accounts)
        /\ Len(accounts) <= Len(accountSources)
        /\ pc \in {"antigravity:project", "antigravity:quota"} => agIdx = Len(accounts) + 1
        /\ \A k \in DOMAIN accounts :
             /\ accounts[k].id = accountSources[k].email
             /\ (served[k].kind = "http" /\ ResponseOk(served[k])) =>
                    /\ ~Has(accounts[k], "isForbidden")
                    /\ accounts[k].models = AgNormalize(served[k].body)
        /\ (pc = "done" /\ Len(accountSources) > 0) =>
               /\ result = [status |-> "ok", accounts |-> accounts]
               /\ Len(accounts) = Len(accountSources)

\* the first account is forbidden, the second one's models are listed, the
\* provider's status is ok
C4_Witness ==
    /\ provider = "antigravity" /\ pc = "done"
    /\ result.status = "ok" /\ Len(result.accounts) = 2
    /\ Has(result.accounts[1], "isForbidden")
    /\ Len(result.accounts[2].models) = 2
    /\ result.accounts[2].overallHealth = "critical"

\* the e-mail an account of the stores is listed under
EmailOf(item) ==
    IF item.src = "opencode" /\ ~Truthy(Opt(item.acc, "email")) THEN "opencode-account"
    ELSE item.acc.email

\* the token endpoint gave no access token for the account's refresh token
RefreshFailed(item) ==
    /\ NeedsRefresh(item)
    /\ ~\E s \in DOMAIN accountSources :
          accountSources[s].accessToken = AccessTokenFor(Opt(item.acc, "refreshToken"))

\* C5 as stated: when the fetch has ended with the accounts it could fetch,
\* every stored account whose refresh token could not be exchanged is listed
\* in the result as well, with no models and health unknown.
C5_AsStated ==
    (provider = "antigravity" /\ pc = "done" /\ result.status = "ok") =>
        \A i \in DOMAIN AgQueue(agStore) :
            LET item == AgQueue(agStore)[i]
            IN  RefreshFailed(item) =>
                    \E k \in DOMAIN result.accounts :
                        /\ result.accounts[k].id = EmailOf(item)
                        /\ result.accounts[k].models = <<>>
                        /\ result.accounts[k].overallHealth = "unknown"

\* C6: the attempts on the model-quota endpoint start with attempt 1 on the
\* primary endpoint; an attempt is followed by another only when it failed
\* (not with 403); after attempt n < 3 comes a sleep of 1000 * n ms and then
\* attempt n + 1 on the same endpoint; after attempt 3 on the primary endpoint
\* comes attempt 1 on the fallback endpoint, and nothing comes after attempt 3
\* on the fallback.  So no endpoint is tried more than 3 times and the two are
\* never interleaved.
C6_RetryThenFallback ==
    provider = "antigravity" =>
        /\ \A i \in QuotaCalls :
             /\ calls[i].attempt \in 1..3
             /\ (\A j \in QuotaCalls : j >= i) =>
                    calls[i].endpoint = endpoints[1] /\ calls[i].attempt = 1
             /\ i < Len(calls) =>
                    /\ Failed(calls[i])
                    /\ IF calls[i].attempt < 3
                       THEN /\ calls[i + 1] = [api |-> "sleep", ms |-> 1000 * calls[i].attempt]
                            /\ i + 2 <= Len(calls) =>
                                   /\ calls[i + 2].api = "fetchAvailableModels"
                                   /\ calls[i + 2].endpoint = calls[i].endpoint
                                   /\ calls[i + 2].attempt = calls[i].attempt + 1
                       ELSE /\ calls[i].endpoint = endpoints[1]
                            /\ calls[i + 1].api = "fetchAvailableModels"
                            /\ calls[i + 1].endpoint = endpoints[2]
                            /\ calls[i + 1].attempt = 1
        /\ \A i \in DOMAIN calls :
             calls[i].api = "sleep" => i > 1 /\ calls[i - 1].api = "fetchAvailableModels"

\* three failures on the primary endpoint, three on the fallback, then the
\* account is recorded without models
C6_Witness ==
    /\ provider = "antigravity"
    /\ Cardinality(QuotaCalls) = 6
    /\ \A i \in QuotaCalls : Failed(calls[i])
    /\ Cardinality({i \in DOMAIN calls : calls[i].api = "sleep"}) = 4
    /\ pc # "antigravity:quota"
    /\ accounts[Len(accounts)].models = <<>>
    /\ accounts[Len(accounts)].overallHealth = "unknown"

\* the provider found no credential in any of its sources: no stored or
\* environment key (Z.AI); no environment key and no readable credential file
\* (Gemini CLI); no account source left by getAllAccountSources (Antigravity)
NoCredential ==
    /\ pc # "start"
    /\ \/ /\ provider = "zai"
          /\ ~Truthy(storedApiKey)
          /\ \A i \in DOMAIN ZaiEnvNames : ~Truthy(env[ZaiEnvNames[i]])
       \/ /\ provider = "gemini-cli"
          /\ \A i \in DOMAIN GeminiEnvNames : ~Truthy(env[GeminiEnvNames[i]])
          /\ IsNullCreds(creds)
       \/ /\ provider = "antigravity"
          /\ pc # "antigravity:sources"
          /\ accountSources = <<>>

\* C7: a provider that finds no credential returns at once with status
\* not_configured and no accounts, and has sent no request to a quota API
\* (the only requests it can have sent are Antigravity's token exchanges).
C7_NoCredentialNotConfigured ==
    NoCredential =>
        /\ pc = "done"
        /\ result.status = "not_configured"
        /\ result.accounts = <<>>
        /\ \A i \in DOMAIN calls : calls[i].api = "token"
        /\ provider # "antigravity" => calls = <<>>

\* Antigravity with one stored account whose token exchange failed
C7_Witness ==
    /\ provider = "antigravity" /\ pc = "done"
    /\ Len(calls) = 1 /\ calls[1].api = "token"
    /\ accountSources = <<>>
    /\ result.status = "not_configured"

\* the Model Quotas of the result the fetch has returned
EmittedModels ==
    IF pc = "done"
    THEN UNION {{a.models[i] : i \in DOMAIN a.models} :
                   a \in {result.accounts[k] : k \in DOMAIN result.accounts}}
    ELSE {}

\* C8 as stated: every emitted Model Quota has remainingPercent and
\* usedPercent within 0..100.
C8_AsStated ==
    \A m \in EmittedModels :
        m.remainingPercent \in 0..100 /\ m.usedPercent \in 0..100

\* C9 as stated: every emitted Model Quota has remainingPercent + usedPercent
\* equal to 100.
C9_AsStated ==
    \A m \in EmittedModels : m.remainingPercent + m.usedPercent = 100

\* the health the rule of C10 gives an account
RuleHealth(a) ==
    IF Has(a, "isForbidden") THEN "critical"
    ELSE IF a.models = <<>> THEN "unknown"
    ELSE IF \E i \in DOMAIN a.models : a.models[i].remainingPercent < 30 THEN "critical"
    ELSE IF \E i \in DOMAIN a.models : a.models[i].remainingPercent < 70 THEN "warning"
    ELSE "good"

EmittedAccounts ==
    IF pc = "done" THEN {result.accounts[k] : k \in DOMAIN result.accounts} ELSE {}

\* C10 as stated: the overallHealth of every emitted account is the one the
\* rule gives: critical when forbidden or any model is below 30, else warning
\* when any is below 70, else good; unknown exactly when there are no models.
C10_AsStated ==
    \A a \in EmittedAccounts : a.overallHealth = RuleHealth(a)

\* C10 (amended): the rule gives the overallHealth of every emitted account
\* but one: the account the Gemini provider makes up in API-key mode, which
\* lists one placeholder model at 100% and has health unknown.
C10_HealthFromModels ==
    \A a \in EmittedAccounts :
        IF provider = "gemini-cli" /\ a.id = "api-key"
        THEN /\ a.overallHealth = "unknown"
             /\ Len(a.models) = 1
             /\ a.models[1].remainingPercent = 100 /\ a.models[1].usedPercent = 0
        ELSE a.overallHealth = RuleHealth(a)

\* one forbidden account (critical) next to one whose only model is at 50%
\* (warning)
C10_Witness ==
    /\ provider = "antigravity" /\ pc = "done"
    /\ Len(result.accounts) = 2
    /\ Has(result.accounts[1], "isForbidden")
    /\ result.accounts[1].overallHealth = "critical"
    /\ Len(result.accounts[2].models) = 1
    /\ result.accounts[2].models[1].remainingPercent = 50
    /\ result.accounts[2].overallHealth = "warning"

\* the order of C11, worst first
HealthRank == [critical |-> 0, warning |-> 1, good |-> 2]

NotBetter(after, before) ==
    \/ after = before
    \/ /\ after \in DOMAIN HealthRank /\ before \in DOMAIN HealthRank
       /\ HealthRank[after] <= HealthRank[before]

\* C11: after the remaining percentage of one model has been lowered, no model
\* row and no account row of the tree shows a better health than before
\* (critical < warning < good), and the provider row's worst health has not
\* dropped in getWorstHealth's priority.
C11_LoweringNeverImproves ==
    (provider = "tree" /\ iconsBefore # NoIcons) =>
        /\ \A k \in DOMAIN icons.accounts :
             /\ NotBetter(icons.accounts[k].account, iconsBefore.accounts[k].account)
             /\ \A i \in DOMAIN icons.accounts[k].models :
                  NotBetter(icons.accounts[k].models[i], iconsBefore.accounts[k].models[i])
        /\ healthPriority[icons.provider] >= healthPriority[iconsBefore.provider]

\* two models at good; one of them is lowered below 30 and the account turns
\* from good to critical
C11_Witness ==
    /\ provider = "tree"
    /\ iconsBefore # NoIcons
    /\ iconsBefore.accounts[1] = [account |-> "good", models |-> <<"good", "good">>]
    /\ icons.accounts[1] = [account |-> "critical", models |-> <<"good", "critical">>]

\* the entries of data.models the loop has passed, by position
Passed == 1..Len(agGroupKeys)

\* the pattern occurs in the text when letter case is set aside
OccursIn(pattern, text) ==
    \E i \in 0..(Len(text) - Len(pattern)) :
      \A k \in 1..Len(pattern) : LowerChar(text[i + k]) = LowerChar(pattern[k])

\* the raw id of an entry and, when it has one, its display name
NamesOf(entry) ==
    {entry.id} \cup (IF Has(entry.info, "displayName") THEN {entry.info.displayName} ELSE {})

\* the groups one of whose patterns occurs in a name of the entry
GroupsMatching(entry) ==
    {MODEL_GROUPS[g].group : g \in {h \in DOMAIN MODEL_GROUPS :
        \E p \in DOMAIN MODEL_GROUPS[h].patterns :
          \E n \in NamesOf(entry) : OccursIn(MODEL_GROUPS[h].patterns[p], n)}}

SameLetters(a, b) ==
    Len(a) = Len(b) /\ \A k \in 1..Len(a) : LowerChar(a[k]) = LowerChar(b[k])

\* C12: an entry with quota info one of whose names (raw id or display name)
\* contains a pattern of a group, in any letter case, is placed in a group
\* that has such a pattern; an id spelled gemini-3-pro-high in any letter
\* case is placed in "Gemini 3 Pro".
C12_MatchingIgnoresCase ==
    \A i \in Passed :
      LET entry == agEntries[i]
      IN  Has(entry.info, "quotaInfo") =>
            /\ GroupsMatching(entry) # {} =>
                  /\ agGroupKeys[i] \in GroupsMatching(entry)
                  /\ agGroups[agGroupKeys[i]].found
            /\ SameLetters(entry.id, s_gemini_3_pro_high) =>
                  agGroupKeys[i] = "Gemini 3 Pro"

\* the body lists gemini-3-PRO-high and a model that only its display name
\* ("Claude Opus 4") places, and both have been grouped
C12_Witness ==
    /\ pc = "done"
    /\ \E i \in Passed : /\ agEntries[i].id = s_gemini_3_PRO_high
                          /\ agGroupKeys[i] = "Gemini 3 Pro"
    /\ \E i \in Passed : /\ agEntries[i].id = s_model_7
                          /\ agGroupKeys[i] = "Claude / GPT"

\* the entries placed in a group, by position
MatchedBy(group) == {i \in Passed : agGroupKeys[i] = group}

PercentOf(i) == AgRemainingPercent(agEntries[i].info.quotaInfo)

\* the entries of a group with the least remaining percentage
LowestOf(group) ==
    {i \in MatchedBy(group) : \A j \in MatchedBy(group) : PercentOf(i) <= PercentOf(j)}

\* the emitted model carries the reset time of entry i (none when the entry has none)
CarriesResetTimeOf(m, i) ==
    LET resetTime == AgResetTime(agEntries[i].info.quotaInfo)
    IN  IF resetTime = Undefined THEN ~Has(m, "resetTime")
        ELSE Has(m, "resetTime") /\ m.resetTime = resetTime

\* C13 as stated: every emitted group shows the least remaining percentage of
\* the entries placed in it and the reset time of an entry that has that
\* percentage, also when that percentage is 100.
C13_AsStated ==
    pc = "done" =>
      \A k \in DOMAIN agModels :
        LET m == agModels[k]
        IN  /\ \E i \in LowestOf(m.name) : m.remainingPercent = PercentOf(i)
            /\ \E i \in LowestOf(m.name) : CarriesResetTimeOf(m, i)

GroupNames == {MODEL_GROUPS[g].group : g \in DOMAIN MODEL_GROUPS}

\* the positions at which a group is emitted
EmittedAt(group) == {k \in DOMAIN agModels : agModels[k].name = group}

EnvKeyPresent == \E i \in DOMAIN ZaiEnvNames : Truthy(env[ZaiEnvNames[i]])

\* C15: a Z.AI fetch that starts while the key in force was installed by
\* updateZaiApiKey from a non-empty setting, with a key in the environment as
\* well, sends the installed settings key in the Authorization header and
\* not the environment's key.
C15_SettingsKeySent ==
    [][(/\ pc = "start" /\ pc' = "zai:await"
        /\ keySource = "settings" /\ EnvKeyPresent)
       => /\ Len(calls') = 1
          /\ calls'[1].authorization = storedApiKey
          /\ Truthy(storedApiKey)
          /\ \A i \in DOMAIN ZaiEnvNames :
                calls'[1].authorization # env[ZaiEnvNames[i]]]_vars

\* the request is out with "sk-test", installed from the setting, while
\* ZAI_API_KEY holds "sk-env"
C15_Witness ==
    /\ pc = "zai:await"
    /\ keySource = "settings"
    /\ env["ZAI_API_KEY"] = "sk-env"
    /\ calls[1].authorization = "sk-test"

\* the key in force is the present, non-empty setting, installed from it
SettingsKeyInForce ==
    keySource = "settings" /\ Truthy(settingKey) /\ storedApiKey = settingKey

\* C16 as stated: an invocation of updateZaiApiKey that finds a non-empty
\* setting leaves the key of zai.ts equal to it; one that returns from the
\* secret storage leaves the stored secret, and never in place of a non-empty
\* settings key that is in force.
C16_AsStated ==
    [][/\ (updateZaiApiKey /\ Truthy(settingKey)) => storedApiKey' = settingKey
       /\ updateZaiApiKeyResumed =>
             storedApiKey' = secretKey /\ ~SettingsKeyInForce]_vars

\* the accounts stored in the opencode file and in the proxy file
StoredAccounts ==
    {i \in DOMAIN AgQueue(agStore) : AgQueue(agStore)[i].src \in {"opencode", "proxy"}}

\* the entries of the result listed under an identity
EntriesFor(email) == {k \in DOMAIN result.accounts : result.accounts[k].id = email}

\* C17 as stated: when the fetch has ended with accounts and two stores of
\* different kinds hold an account with the same email, the result lists that
\* email exactly once.
C17_AsStated ==
    (provider = "antigravity" /\ pc = "done" /\ result.status = "ok") =>
      \A i, j \in StoredAccounts :
        LET a == AgQueue(agStore)[i]
            b == AgQueue(agStore)[j]
        IN  (a.src # b.src /\ EmailOf(a) = EmailOf(b)) =>
              Cardinality(EntriesFor(EmailOf(a))) = 1

\* C18: with a non-empty GEMINI_API_KEY or GOOGLE_API_KEY the Gemini fetch is
\* over at its first step with status ok, the one synthetic account and a
\* hint, and it has read no credential file and sent no request, whatever
\* the credential file holds.
C18_ApiKeyModeShortCircuits ==
    (/\ provider = "gemini-cli" /\ pc # "start"
     /\ \E i \in DOMAIN GeminiEnvNames : Truthy(env[GeminiEnvNames[i]]))
    => /\ pc = "done"
       /\ result.status = "ok"
       /\ Len(result.accounts) = 1
       /\ result.accounts[1].id = "api-key"
       /\ result.accounts[1].overallHealth = "unknown"
       /\ Has(result, "hint") /\ Truthy(result.hint)
       /\ calls = <<>>
       /\ creds = NoCreds /\ accessToken = Undefined

\* only GOOGLE_API_KEY is set and the credential file holds OAuth credentials
\* that have expired; the fetch is over without a request
C18_Witness ==
    /\ provider = "gemini-cli" /\ pc = "done"
    /\ ~Truthy(env["GEMINI_API_KEY"]) /\ Truthy(env["GOOGLE_API_KEY"])
    /\ Has(credFile, "refresh_token") /\ Has(credFile, "expiry_date")
    /\ credFile.expiry_date < now
    /\ result.hint = "API key mode - quota data unavailable"
    /\ calls = <<>>

Statuses == {"ok", "not_configured", "auth_expired", "error"}

\* the awaits one account of Antigravity can take: loadCodeAssist and every
\* attempt on every endpoint
AwaitsPerAccount == 1 + Len(endpoints) * MAX_RETRIES

\* an upper bound on the awaits (and clock ticks) a fetch still has before it
GeminiAwaitsLeft ==
    CASE pc = "start" -> 7
      [] pc = "gemini:refresh" -> 6
      [] pc = "gemini:project" -> 5
      [] pc = "gemini:quota" -> 4
      [] pc = "gemini:refresh2" -> 3
      [] pc = "gemini:project2" -> 2
      [] pc = "gemini:quota2" -> 1
      [] OTHER -> 0

AgAwaitsLeft ==
    LET queued == Len(AgQueue(agStore))
    IN  CASE pc = "start" -> (queued + 1) * (AwaitsPerAccount + 1)
          [] pc = "antigravity:sources" ->
                (queued - agIdx + 1) + queued * AwaitsPerAccount
          [] pc = "antigravity:project" ->
                (Len(accountSources) - agIdx + 1) * AwaitsPerAccount
          [] pc = "antigravity:quota" ->
                (Len(accountSources) - agIdx) * AwaitsPerAccount
                    + (Len(endpoints) - endpointIdx) * MAX_RETRIES
                    + (MAX_RETRIES - attempt + 1)
          [] OTHER -> 0

AwaitsLeft ==
    CASE provider = "zai" -> (IF pc = "start" THEN 2 ELSE IF pc = "zai:await" THEN 1 ELSE 0)
      [] provider = "gemini-cli" ->
            GeminiAwaitsLeft + (5000 + 1000 * MaxTicks - now) \div 1000
      [] provider = "antigravity" -> AgAwaitsLeft
      [] OTHER -> 0

\* C19: whatever the files hold and the remotes answer, a fetch of any of
\* the three providers is never stuck before its end (no failure is left
\* uncaught), every step takes it closer to the end, and it ends with one
\* result whose status is ok, not_configured, auth_expired or error; until
\* then there is no result, and once there nothing more happens.
C19_AlwaysOneResult ==
    /\ [](pc # "done" => result = NoResult /\ ENABLED Next)
    /\ [](pc = "done" => result # NoResult /\ result.status \in Statuses)
    /\ [](AwaitsLeft >= 0)
    /\ [][AwaitsLeft' < AwaitsLeft /\ pc # "done"]_vars

\* an Antigravity fetch has ended after every attempt on both endpoints
\* failed for an account, the last one with a rejected fetch
C19_Witness ==
    /\ provider = "antigravity" /\ pc = "done"
    /\ result.status \in Statuses
    /\ Len(calls) >= 2 * MAX_RETRIES
    /\ \E i \in DOMAIN calls : Has(calls[i], "response") /\ calls[i].response.kind = "throw"

\* the token exchanges in the log that have been answered
TokenCalls == {k \in DOMAIN calls : calls[k].api = "token" /\ Has(calls[k], "response")}

\* the exchange was rejected (network error) or answered with a non-2xx status
ExchangeFailed(k) ==
    calls[k].response.kind = "throw" \/ ~ResponseOk(calls[k].response)

\* C20: a token exchange of the Gemini CLI or Antigravity provider that meets
\* a network error or a non-2xx answer returns null to its caller (it returns,
\* it does not throw); and in Antigravity every exchange that did return a
\* token has its account among the sources with exactly that token, whatever
\* happened to the exchanges of the other accounts.
C20_FailedRefreshReturnsNull ==
    /\ \A k \in TokenCalls :
          /\ Has(calls[k], "returned")
          /\ ExchangeFailed(k) => calls[k].returned = Null
    /\ (provider = "antigravity" /\ pc \in {"antigravity:sources", "antigravity:project"}) =>
          \A k \in TokenCalls :
            Truthy(calls[k].returned) =>
              /\ calls[k].returned = AccessTokenFor(calls[k].refresh_token)
              /\ Cardinality({s \in DOMAIN accountSources :
                                accountSources[s].accessToken = calls[k].returned}) = 1

\* Antigravity: the exchange for the first stored account was rejected, the
\* one for the second returned its token, and the second is a source with it
C20_Witness ==
    /\ provider = "antigravity" /\ pc = "antigravity:project"
    /\ Len(calls) >= 2
    /\ calls[1].api = "token" /\ calls[1].response.kind = "throw"
    /\ calls[2].api = "token" /\ Truthy(calls[2].returned)
    /\ Len(accountSources) = 1
    /\ accountSources[1].accessToken = calls[2].returned

\* a refresh of the Gemini provider is answered in this step
GeminiRefreshAnswered ==
    /\ provider = "gemini-cli"
    /\ pc \in {"gemini:refresh", "gemini:refresh2"}
    /\ pc' # pc

\* C21: when a Gemini token exchange has given refreshToken a token, the
\* credential file holds that token and the expiry Date.now() + expires_in
\* seconds, and every other field it held before (refresh token, client id
\* and secret) as it was; when the exchange met a network error or a non-2xx
\* answer, the file is what it was.
C21_RefreshWritesBack ==
    [][GeminiRefreshAnswered =>
         LET call == calls'[Len(calls)]
         IN  /\ Truthy(call.returned) =>
                   /\ ~Has(credFile', "file")
                   /\ credFile'.access_token = call.returned
                   /\ credFile'.access_token = call.response.body.access_token
                   /\ credFile'.expiry_date = now + call.response.body.expires_in * 1000
                   /\ DOMAIN credFile' = DOMAIN credFile \cup {"access_token", "expiry_date"}
                   /\ \A f \in DOMAIN credFile \ {"access_token", "expiry_date"} :
                         credFile'[f] = credFile[f]
             /\ (call.response.kind = "throw" \/ ~ResponseOk(call.response)) =>
                   credFile' = credFile]_vars

\* the refresh of a file with its own client id and secret and a stale expiry
\* has succeeded: new token, expiry an hour after the refresh, the rest kept
C21_Witness ==
    /\ provider = "gemini-cli" /\ pc = "gemini:project"
    /\ Len(calls) = 2 /\ calls[1].api = "token" /\ calls[1].returned = "tok-new"
    /\ Has(credFile, "client_id") /\ Has(credFile, "expiry_date")
    /\ credFile.access_token = "tok-new"
    /\ credFile.expiry_date = now + 3600 * 1000
    /\ credFile.refresh_token = "rt-1"
    /\ credFile.client_id = "custom-id" /\ credFile.client_secret = "custom-secret"

\* C22: the project id sent with an Antigravity quota call is the account's
\* configured projectId when it has one, otherwise its managedProjectId,
\* otherwise the id loadCodeAssist has just resolved for it (none when it
\* resolved none); a resolved id never replaces a configured one.
AgQuotaCallIssued ==
    /\ provider = "antigravity" /\ pc = "antigravity:quota"
    /\ Len(calls') > Len(calls)

C22_ProjectIdPrecedence ==
    [][AgQuotaCallIssued =>
         LET account == accountSources[agIdx]
             fresh == calls[1].returned.projectId
             sent == calls'[Len(calls) + 1]
         IN  /\ calls[1].api = "loadCodeAssist"
             /\ sent.api = "fetchAvailableModels"
             /\ Truthy(account.projectId) => sent.project = account.projectId
             /\ (~Truthy(account.projectId) /\ Truthy(account.managedProjectId))
                    => sent.project = account.managedProjectId
             /\ (~Truthy(account.projectId) /\ ~Truthy(account.managedProjectId))
                    => /\ Truthy(fresh) => sent.project = fresh
                       /\ ~Truthy(fresh) => sent.project = Undefined]_vars

\* loadCodeAssist resolved an id for an account that has a configured and a
\* managed one, and the quota call went out with the configured one
C22_Witness ==
    /\ provider = "antigravity" /\ Len(calls) >= 2
    /\ calls[1].api = "loadCodeAssist"
    /\ calls[1].returned.projectId = "proj-fresh"
    /\ calls[2].api = "fetchAvailableModels"
    /\ calls[2].project = "proj-cfg"
    /\ agProjectId = "proj-cfg"
    /\ \E i \in DOMAIN accountSources :
         /\ accountSources[i].projectId = "proj-cfg"
         /\ accountSources[i].managedProjectId = "proj-managed-a"

\* C23: in a Gemini CLI fetch, a loadCodeAssist answer that resolves no
\* project (a non-2xx status other than 401 and 403, or a body without a
\* project) ends the fetch with status error and no accounts, on the first
\* attempt and on the retry after a refresh; every quota call carries the
\* project the answer just before it resolved.
ProjectUnresolved(r) ==
    /\ r.kind = "http" /\ r.status \notin {401, 403}
    /\ \/ ~ResponseOk(r)
       \/ ~Has(r.body, "cloudaicompanionProject")
       \/ r.body.cloudaicompanionProject = ""

C23_UnresolvedProjectFails ==
    provider = "gemini-cli" =>
        \A i \in DOMAIN calls :
            /\ (calls[i].api = "loadCodeAssist" /\ Has(calls[i], "response")
                    /\ ProjectUnresolved(calls[i].response))
                   => /\ i = Len(calls) /\ pc = "done"
                      /\ result.status = "error" /\ result.accounts = <<>>
            /\ calls[i].api = "retrieveUserQuota"
                   => /\ i > 1 /\ calls[i - 1].api = "loadCodeAssist"
                      /\ ResponseOk(calls[i - 1].response)
                      /\ Has(calls[i - 1].response.body, "cloudaicompanionProject")
                      /\ calls[i].project = calls[i - 1].response.body.cloudaicompanionProject
                      /\ calls[i].project \notin {"", Null, Undefined}

\* the retry after a refresh got a 200 without a project
C23_Witness ==
    /\ provider = "gemini-cli" /\ pc = "done" /\ result.status = "error"
    /\ \E i \in DOMAIN calls : calls[i].api = "token" /\ Truthy(calls[i].returned)
                                /\ i > 1 /\ calls[i - 1].response.status = 401
    /\ calls[Len(calls)].api = "loadCodeAssist"
    /\ calls[Len(calls)].response.kind = "http"
    /\ calls[Len(calls)].response.status = 200
    /\ ~Has(calls[Len(calls)].response.body, "cloudaicompanionProject")

\* C24: the result of a fetch has accounts only when its status is ok, and
\* an ok result has at least one: exactly one for Z.AI and for Gemini CLI,
\* and for Antigravity one per account source, in the order of the sources.
C24_AccountsOnlyWhenOk ==
    pc = "done" =>
        /\ result.accounts # <<>> => result.status = "ok"
        /\ result.status = "ok" =>
             /\ Len(result.accounts) >= 1
             /\ provider \in {"zai", "gemini-cli"} => Len(result.accounts) = 1
             /\ provider = "antigravity" =>
                  /\ Len(result.accounts) = Len(accountSources)
                  /\ \A i \in DOMAIN accountSources :
                       result.accounts[i].id = accountSources[i].email

\* an Antigravity fetch over two account sources has returned their two
\* accounts in order
C24_Witness ==
    /\ provider = "antigravity" /\ pc = "done" /\ result.status = "ok"
    /\ Len(accountSources) = 2 /\ Len(result.accounts) = 2
    /\ accountSources[1].email # accountSources[2].email
    /\ result.accounts[1].id = accountSources[1].email
    /\ result.accounts[2].id = accountSources[2].email

\* C25 as stated: when the last answer of a Gemini CLI fetch is a quota
\* answer with a status that is neither 2xx nor 401 nor 403, the result has
\* status error.
QuotaCallFailed(call) ==
    /\ call.api = "retrieveUserQuota" /\ Has(call, "response")
    /\ call.response.kind = "http"
    /\ ~ResponseOk(call.response)
    /\ call.response.status \notin {401, 403}

C25_AsStated ==
    (provider = "gemini-cli" /\ pc = "done" /\ calls # <<>>
        /\ QuotaCallFailed(calls[Len(calls)]))
      => result.status = "error"

\* C26: in a Z.AI fetch that sent its request, a network error, an
\* undecodable body, a 401, any other non-2xx status, and a 2xx body whose
\* success flag is not true or that has no limits list each give status
\* error with a message and no accounts; the status is ok exactly for a 2xx
\* body with success true and a limits list.
ZaiBodyUsable(r) ==
    /\ r.kind = "http" /\ ResponseOk(r)
    /\ Has(r.body, "success") /\ r.body.success = TRUE
    /\ Has(r.body, "data") /\ Has(r.body.data, "limits")

C26_ZaiFailuresAreErrors ==
    (provider = "zai" /\ pc = "done" /\ calls # <<>>) =>
        LET r == calls[Len(calls)].response
        IN  /\ ~ZaiBodyUsable(r) =>
                 /\ result.status = "error"
                 /\ result.accounts = <<>>
                 /\ Truthy(result.error)
            /\ ZaiBodyUsable(r) =>
                 /\ result.status = "ok"
                 /\ Len(result.accounts) = 1

\* a 200 came back with a limits list but without the success flag
C26_Witness ==
    /\ provider = "zai" /\ pc = "done" /\ calls # <<>>
    /\ calls[Len(calls)].response.kind = "http"
    /\ calls[Len(calls)].response.status = 200
    /\ ~Has(calls[Len(calls)].response.body, "success")
    /\ Has(calls[Len(calls)].response.body, "data")
    /\ result.status = "error" /\ result.error = "Unexpected API response"

\* C27: an entry whose quota info has no remaining fraction counts as 0
\* percent remaining for the group it is placed in, so that group is emitted
\* at 0 percent; an entry without quota info is skipped, and a group matched
\* only by such entries is not emitted.
FractionMissing(entry) ==
    Has(entry.info, "quotaInfo") /\ ~Has(entry.info.quotaInfo, "remainingFraction")

C27_MissingFractionIsZero ==
    pc = "done" =>
      /\ \A i \in Passed :
           /\ (FractionMissing(agEntries[i]) /\ agGroupKeys[i] \in GroupNames) =>
                \E k \in EmittedAt(agGroupKeys[i]) :
                    /\ agModels[k].remainingPercent = 0
                    /\ agModels[k].usedPercent = 100
           /\ ~Has(agEntries[i].info, "quotaInfo") => agGroupKeys[i] = Undefined
      /\ \A group \in GroupNames :
           (\A i \in DOMAIN agEntries :
                group \in GroupsMatching(agEntries[i])
                    => ~Has(agEntries[i].info, "quotaInfo"))
             => EmittedAt(group) = {}

\* the body lists gemini-3-pro with quota info without a fraction and
\* gemini-3-image without quota info: "Gemini 3 Pro" is emitted at 0 percent
\* and "Gemini 3 Image" is not emitted
C27_Witness ==
    /\ pc = "done" /\ Len(agEntries) = 2
    /\ \E i \in Passed : agEntries[i].id = s_gemini_3_pro /\ FractionMissing(agEntries[i])
    /\ \E i \in Passed : /\ agEntries[i].id = s_gemini_3_image
                          /\ ~Has(agEntries[i].info, "quotaInfo")
    /\ Len(agModels) = 1
    /\ agModels[1].name = "Gemini 3 Pro" /\ agModels[1].remainingPercent = 0

\* C28 as stated: an entry with quota info whose raw id is one of the
\* patterns listed for a group is placed in the group that lists it; so
\* gemini-3-pro-image is placed in "Gemini 3 Image".
GroupsListing(id) ==
    {MODEL_GROUPS[g].group : g \in {h \in DOMAIN MODEL_GROUPS :
        \E p \in DOMAIN MODEL_GROUPS[h].patterns : MODEL_GROUPS[h].patterns[p] = id}}

C28_AsStated ==
    \A i \in Passed :
      (Has(agEntries[i].info, "quotaInfo") /\ GroupsListing(agEntries[i].id) # {})
        => agGroupKeys[i] \in GroupsListing(agEntries[i].id)

\* C29: whatever the remotes answer, one Gemini CLI fetch sends at most two
\* token requests, two project-id requests and two quota requests; while it
\* has not returned it is waiting for the answer to the last request it
\* sent, and every answer either ends it or sends the next request, so it
\* returns after at most six answers.
CallsTo(api) == {k \in DOMAIN calls : calls[k].api = api}

C29_BoundedCalls ==
    provider = "gemini-cli" =>
        /\ Cardinality(CallsTo("token")) <= 2
        /\ Cardinality(CallsTo("loadCodeAssist")) <= 2
        /\ Cardinality(CallsTo("retrieveUserQuota")) <= 2
        /\ DOMAIN calls = CallsTo("token") \cup CallsTo("loadCodeAssist")
                              \cup CallsTo("retrieveUserQuota")
        /\ \A k \in DOMAIN calls : k < Len(calls) => Has(calls[k], "response")
        /\ pc \notin {"start", "done"} =>
              /\ calls # <<>> /\ ~Has(calls[Len(calls)], "response")
              /\ result = NoResult
        /\ pc = "done" =>
              /\ result # NoResult
              /\ calls # <<>> => Has(calls[Len(calls)], "response")

\* a fetch that refreshed an expired token, met a 401 at the quota call,
\* refreshed again and retried: two token requests and four API requests
C29_Witness ==
    /\ provider = "gemini-cli" /\ pc = "done"
    /\ Len(calls) = 6
    /\ Cardinality(CallsTo("token")) = 2
    /\ Cardinality(CallsTo("loadCodeAssist")) = 2
    /\ Cardinality(CallsTo("retrieveUserQuota")) = 2
    /\ calls[3].response.status = 401

\* C30: when the expiry_date stored in the Gemini credential file lies after
\* the start of the fetch and no project-id or quota call has been answered
\* 401 or 403, the fetch has sent no token request and the credential file
\* is as it was, in every state of the fetch and so whatever its outcome.
StoredCreds == IF IsNullCreds(creds) THEN credFile ELSE creds

C30_FreshTokenLeavesFile ==
    (provider = "gemini-cli"
        /\ Has(StoredCreds, "expiry_date") /\ StoredCreds.expiry_date > 5000
        /\ AuthFailures = {})
      => /\ CallsTo("token") = {}
         /\ credFile = StoredCreds
         /\ accessToken \in {Undefined, StoredCreds.access_token}

\* the stored token was still valid when the fetch started, the clock reached
\* its expiry while the fetch waited, and the fetch ended in an error after
\* its two API calls
C30_Witness ==
    /\ provider = "gemini-cli" /\ pc = "done" /\ result.status = "error"
    /\ Has(creds, "expiry_date") /\ creds.expiry_date = 6000 /\ now = 6000
    /\ Len(calls) = 2 /\ calls[2].api = "retrieveUserQuota"
    /\ credFile = creds

\* C31: Gemini refreshToken returns a token only when the credential file
\* has been rewritten with it; when the token endpoint answers 2xx and the
\* file does not hold the new token afterwards, refreshToken returns null
\* and the fetch ends with auth_expired, without a further request.
FileHoldsToken(file, token) ==
    ~Has(file, "file") /\ file.access_token = token

C31_TokenOnlyIfWritten ==
    [][GeminiRefreshAnswered =>
         LET call == calls'[Len(calls)]
         IN  /\ Truthy(call.returned) => FileHoldsToken(credFile', call.returned)
             /\ (call.response.kind = "http" /\ ResponseOk(call.response)
                    /\ ~FileHoldsToken(credFile', call.response.body.access_token))
                  => /\ call.returned = Null
                     /\ pc' = "done"
                     /\ Len(calls') = Len(calls)
                     /\ result' = createAuthExpiredResult("Run 'gemini' to re-authenticate")]_vars

\* the token endpoint answered 200 with a new token, the file was left
\* truncated by the failed write, and the fetch ended with auth_expired
C31_Witness ==
    /\ provider = "gemini-cli" /\ pc = "done"
    /\ result.status = "auth_expired"
    /\ calls[Len(calls)].api = "token"
    /\ calls[Len(calls)].response.kind = "http"
    /\ calls[Len(calls)].response.status = 200
    /\ calls[Len(calls)].returned = Null
    /\ credFile = [file |-> "garbage"]
    /\ ~IsNullCreds(creds)

\* C32 as stated: once no invocation of updateZaiApiKey is suspended and the
\* latest one to start has read the setting as it is now, the key of zai.ts
\* is that setting when it is non-empty (and the stored secret when it is
\* empty), however the invocations overlapped.
UpdatesSettled ==
    /\ updatesBegun > 0 /\ pendingUpdates = 0
    /\ lastSettingRead = settingKey

C32_AsStated ==
    (provider = "zai" /\ UpdatesSettled) =>
        storedApiKey = (IF Truthy(settingKey) THEN settingKey ELSE secretKey)

\* C33 as stated, for the refresh of activation: when only the invocation of
\* updateZaiApiKey made by activate has begun, the setting has been empty
\* throughout and secret storage holds a key, a Z.AI fetch that starts
\* sends its request with the key of secret storage.
ActivationOnly ==
    /\ updatesBegun = 1 /\ settingChanges = 0
    /\ ~Truthy(settingKey) /\ Truthy(secretKey)

C33_AsStated ==
    [][(ZaiFetchQuota /\ ActivationOnly) =>
          /\ pc' = "zai:await"
          /\ calls'[Len(calls')].authorization = secretKey]_vars

=============================================================================
